---- MODULE Spec2Model ----
(***************************************************************************)
(* License and feature-gate core of the random-memo-app desktop notes      *)
(* application: the LicenseService state machine (LicenseService.ts), the  *)
(* repository it counts memos in (DatabaseService.ts) and the renderer's   *)
(* memo creation path (memoStore.ts -> IPCHandler.ts).                     *)
(***************************************************************************)
EXTENDS Integers, Sequences, FiniteSets, TLC

(***************************************************************************)
(* Bounds of the model.                                                    *)
(***************************************************************************)
MaxTicks == 2          \* number of clock advances explored
MaxMemoCount == 12     \* largest number of active memos in the repository
NumRequests == 2       \* concurrent createMemo requests of the renderer
NumCalls == 2          \* feature lookups that can be in flight at once
MaxRetryCount == 1     \* largest options.retryCount passed to FeatureGate

(***************************************************************************)
(* Optional values: null is the empty tuple, a present value v is <<v>>.   *)
(***************************************************************************)
Null == <<>>
Some(v) == <<v>>

Max(a, b) == IF a >= b THEN a ELSE b

(***************************************************************************)
(* Characters and license keys.  A key is a sequence of one-character      *)
(* strings, so that the regular expressions are matched as written.        *)
(***************************************************************************)
Digit == {"0", "1", "2", "3", "4", "5", "6", "7", "8", "9"}
UpperLetter == {"A", "B", "C", "D", "E", "F", "G", "H", "I", "J", "K", "L", "M",
                "N", "O", "P", "Q", "R", "S", "T", "U", "V", "W", "X", "Y", "Z"}
UpperAlnum == UpperLetter \cup Digit
Whitespace == {" "}

W_STANDARD == <<"S", "T", "A", "N", "D", "A", "R", "D">>
W_STUDENT == <<"S", "T", "U", "D", "E", "N", "T">>
W_ENTERPRISE == <<"E", "N", "T", "E", "R", "P", "R", "I", "S", "E">>
W_EXPIRED == <<"E", "X", "P", "I", "R", "E", "D">>
W_2024 == <<"-", "2", "0", "2", "4", "-">>

\* ''
KEY_EMPTY == <<>>
\* ' '
KEY_BLANK == <<" ">>
\* 'INVALID-FORMAT'
KEY_INVALID_FORMAT ==
  <<"I", "N", "V", "A", "L", "I", "D", "-", "F", "O", "R", "M", "A", "T">>
\* 'STANDARD-2024-ABC123DEF456'
KEY_STANDARD ==
  W_STANDARD \o W_2024 \o <<"A", "B", "C", "1", "2", "3", "D", "E", "F", "4", "5", "6">>
\* 'STUDENT-2024-XYZ789ABC123'
KEY_STUDENT ==
  W_STUDENT \o W_2024 \o <<"X", "Y", "Z", "7", "8", "9", "A", "B", "C", "1", "2", "3">>
\* 'STUDENT-2024-STU123456' (only 9 characters after the year)
KEY_STUDENT_SHORT ==
  W_STUDENT \o W_2024 \o <<"S", "T", "U", "1", "2", "3", "4", "5", "6">>
\* 'STANDARD-2024-EXPIRED12345'
KEY_STANDARD_EXPIRED ==
  W_STANDARD \o W_2024 \o W_EXPIRED \o <<"1", "2", "3", "4", "5">>

\* 'EXPIRED-2023-OLD123456'
KEY_EXPIRED_OLD ==
  W_EXPIRED \o <<"-", "2", "0", "2", "3", "-">>
            \o <<"O", "L", "D", "1", "2", "3", "4", "5", "6">>

\* The license keys offered to activateLicense.
Keys ==
  {KEY_EMPTY, KEY_BLANK, KEY_INVALID_FORMAT, KEY_STUDENT_SHORT,
   KEY_STANDARD, KEY_STUDENT, KEY_STANDARD_EXPIRED, KEY_EXPIRED_OLD}

\* LICENSE_KEY_PATTERNS, in the order Object.entries enumerates them.
LICENSE_KEY_PATTERNS ==
  << [type |-> "standard", prefix |-> W_STANDARD],
     [type |-> "student", prefix |-> W_STUDENT],
     [type |-> "enterprise", prefix |-> W_ENTERPRISE] >>

\* The test below with an unanchored tail: /^PREFIX-\d{4}-[A-Z0-9]*/
PatternTest_Unanchored(prefix, key) ==
  LET n == Len(prefix) IN
    /\ Len(key) >= n + 7
    /\ SubSeq(key, 1, n) = prefix
    /\ key[n + 1] = "-"
    /\ \A i \in (n + 2)..(n + 5) : key[i] \in Digit
    /\ key[n + 6] = "-"
    /\ \A i \in (n + 7)..Len(key) : key[i] \in UpperAlnum

\* /^PREFIX-\d{4}-[A-Z0-9]{12}$/.test(key)
PatternTest(prefix, key) ==
  LET n == Len(prefix) IN
    /\ Len(key) = n + 18
    /\ SubSeq(key, 1, n) = prefix
    /\ key[n + 1] = "-"
    /\ \A i \in (n + 2)..(n + 5) : key[i] \in Digit
    /\ key[n + 6] = "-"
    /\ \A i \in (n + 7)..(n + 18) : key[i] \in UpperAlnum

\* validateLicenseKeyFormat: the type of the first pattern that matches, or null.
validateLicenseKeyFormat(licenseKey) ==
  LET hits == {i \in 1..Len(LICENSE_KEY_PATTERNS) :
                 PatternTest(LICENSE_KEY_PATTERNS[i].prefix, licenseKey)}
  IN IF hits = {} THEN Null
     ELSE Some(LICENSE_KEY_PATTERNS[CHOOSE i \in hits : \A j \in hits : i <= j].type)

\* A test that finds sub only at the start of the key.
Includes_AtStart(key, sub) ==
  Len(key) >= Len(sub) /\ SubSeq(key, 1, Len(sub)) = sub

\* licenseKey.includes(sub)
Includes(key, sub) ==
  \E i \in 1..(Len(key) - Len(sub) + 1) : SubSeq(key, i, i + Len(sub) - 1) = sub

\* A test that takes only the empty string for an empty key.
IsEmptyKey_OnlyEmpty(key) == key = <<>>

\* !licenseKey || licenseKey.trim() === ''
IsEmptyKey(key) == \A i \in 1..Len(key) : key[i] \in Whitespace

(***************************************************************************)
(* Feature catalog and limits.                                             *)
(***************************************************************************)
\* FEATURE_DEFINITIONS
FREE_TIER == <<"basic_notes", "simple_positioning", "basic_theming">>
PAID_TIER ==
  <<"basic_notes", "simple_positioning", "basic_theming", "advanced_formatting",
    "cloud_sync", "premium_themes", "export_features", "advanced_search">>

\* Array.prototype.includes
ArrayIncludes(arr, x) == \E i \in 1..Len(arr) : arr[i] = x

FREE_MAX_MEMOS == 10
UNLIMITED == -1

\* The FEATURE_DEFINITIONS object as the module creates it.
FEATURE_DEFINITIONS == [FREE_TIER |-> FREE_TIER, PAID_TIER |-> PAID_TIER]

\* The FEATURE_DEFINITIONS object at run time.  Its two arrays are handed out
\* by reference in every LicenseLimits value, so a caller can change them.
VARIABLE featureDefinitions

\* The switch below without the 'student' label: student falls to the default.
LimitsOf_StudentDefault(licenseType) ==
  CASE licenseType = "free" ->
         [maxMemos |-> FREE_MAX_MEMOS, maxConcurrentMemos |-> -1,
          featuresEnabled |-> featureDefinitions.FREE_TIER]
    [] licenseType \in {"standard", "enterprise"} ->
         [maxMemos |-> UNLIMITED, maxConcurrentMemos |-> -1,
          featuresEnabled |-> featureDefinitions.PAID_TIER]
    [] OTHER ->
         [maxMemos |-> FREE_MAX_MEMOS, maxConcurrentMemos |-> -1,
          featuresEnabled |-> featureDefinitions.FREE_TIER]

\* The switch of getLicenseLimits over currentLicense.licenseType.
LimitsOf(licenseType) ==
  CASE licenseType = "free" ->
         [maxMemos |-> FREE_MAX_MEMOS, maxConcurrentMemos |-> -1,
          featuresEnabled |-> featureDefinitions.FREE_TIER]
    [] licenseType \in {"standard", "student", "enterprise"} ->
         [maxMemos |-> UNLIMITED, maxConcurrentMemos |-> -1,
          featuresEnabled |-> featureDefinitions.PAID_TIER]
    [] OTHER ->
         [maxMemos |-> FREE_MAX_MEMOS, maxConcurrentMemos |-> -1,
          featuresEnabled |-> featureDefinitions.FREE_TIER]

\* The feature names offered to checkFeatureAvailability and requireFeature.
FeatureNames == {"basic_notes", "cloud_sync"}

\* feature.replace('_', ' ') on the feature names above (first underscore only).
ReplaceUnderscore(feature) ==
  CASE feature = "basic_notes" -> "basic notes"
    [] feature = "cloud_sync" -> "cloud sync"
    [] OTHER -> feature

\* CACHE_TTL, in milliseconds.
CACHE_TTL == 5 * 60 * 1000

\* Amounts by which the clock advances between two operations.
TickSteps == {1, CACHE_TTL - 1}

(***************************************************************************)
(* Device identity.  The SHA-256 digest is kept symbolic: the identifier   *)
(* is a term over the system information it is computed from.              *)
(***************************************************************************)
SystemInfo ==
  [hostname |-> "host", platform |-> "linux", arch |-> "x64",
   homedir |-> "/home/user", userInfo |-> "user"]

\* The digest sliced into the five groups of a UUID: [from, to) in the hex string.
UuidGroups == << <<0, 8>>, <<8, 12>>, <<12, 16>>, <<16, 20>>, <<20, 32>> >>

\* An identifier that hashes the host name only.
generateDeviceId_HostOnly == <<"sha256-uuid", [hostname |-> SystemInfo.hostname]>>

generateDeviceId == <<"sha256-uuid", SystemInfo>>

\* A device identifier that is not this machine's.
OTHER_DEVICE == <<"sha256-uuid", [SystemInfo EXCEPT !.hostname = "elsewhere"]>>

\* The deviceId values offered in an activation request.
RequestDeviceIds == {Null, Some(generateDeviceId), Some(OTHER_DEVICE)}

(***************************************************************************)
(* State.                                                                  *)
(***************************************************************************)
VARIABLES
  isInitialized,    \* LicenseService.isInitialized
  currentLicense,   \* LicenseService.currentLicense: Null or a License record
  deviceId,         \* LicenseService.deviceId: Null or Some(id)
  featureCache,     \* LicenseService.featureCache: feature -> Null or entry
  now,              \* Date.now()
  ticks,            \* number of clock advances so far
  memoCount,        \* number of non-deleted memos in the repository
  result,           \* what the most recent step returned or threw
  pc,               \* position of each renderer createMemo request
  calls,            \* the feature lookups in flight, suspended at an await
  gateCache,        \* FeatureGate.featureCache: cache key -> Null or entry
  clearOwed         \* a license change not yet followed by clearCacheForLicense

svcVars == <<isInitialized, currentLicense, deviceId, featureCache>>
gateVars == <<calls, gateCache, clearOwed, featureDefinitions>>
vars == <<isInitialized, currentLicense, deviceId, featureCache, now, ticks,
          memoCount, result, pc, calls, gateCache, clearOwed, featureDefinitions>>

Requests == 1..NumRequests

EmptyCache == [f \in FeatureNames |-> Null]

CallIds == 1..NumCalls

\* A slot of calls in which no lookup is in flight.
NoCall == [stage |-> "idle"]

\* `${feature}_${licenseService.getDeviceId()}`
cacheKey(feature, dev) == <<feature, "_", dev>>

\* The keys that the lookups of the model can form.
CacheKeys == {cacheKey(f, generateDeviceId) : f \in FeatureNames}

\* FeatureGate.featureCache = new Map()
EmptyGateCache == [k \in CacheKeys |-> Null]

\* The tier the service is in, for the record of a step.
TierOf(initialized, license) ==
  IF ~initialized \/ license = Null THEN "uninitialized" ELSE license.licenseType

NoResult == [op |-> "none"]

\* Errors carry the class name, the code and the message.
LicenseError(code, message) == [name |-> "LicenseError", code |-> code, message |-> message]
DatabaseError(code, message) == [name |-> "DatabaseError", code |-> code, message |-> message]
PlainError(message) == [name |-> "Error", code |-> "", message |-> message]

NotInitializedError ==
  LicenseError("SERVICE_NOT_INITIALIZED", "License service not initialized")

\* What DatabaseService.getMemoCount rejects with.
CountFailedError == DatabaseError("COUNT_FAILED", "Failed to count memos")

Returned(op, args, value) ==
  [op |-> op, args |-> args, pre |-> TierOf(isInitialized, currentLicense),
   status |-> "ok", code |-> "", value |-> value]

Threw(op, args, error) ==
  [op |-> op, args |-> args, pre |-> TierOf(isInitialized, currentLicense),
   status |-> "error", code |-> error.code, value |-> error]

Init ==
  /\ isInitialized = FALSE
  /\ currentLicense = Null
  /\ deviceId = Null
  /\ featureCache = EmptyCache
  /\ now = 0
  /\ ticks = 0
  /\ memoCount = 0
  /\ result = NoResult
  /\ pc = [r \in Requests |-> "idle"]
  /\ calls = [c \in CallIds |-> NoCall]
  /\ gateCache = EmptyGateCache
  /\ clearOwed = FALSE
  /\ featureDefinitions = FEATURE_DEFINITIONS

(***************************************************************************)
(* LicenseService.  Every action is one call of a public method, run to    *)
(* completion; its outcome is left in result.                              *)
(***************************************************************************)
envVars == <<now, ticks, memoCount, pc>>

\* A default record that starts out unverified and without a device id.
DefaultLicense_Unverified(dev) ==
  [licenseKey |-> Null, licenseType |-> "free", activationDate |-> Null,
   lastVerification |-> Null, gracePeriodStart |-> Null, deviceId |-> Null,
   isValid |-> FALSE, daysUntilExpiry |-> Null]

\* The free-tier License record that initialize installs.
DefaultLicense(dev) ==
  [licenseKey |-> Null, licenseType |-> "free", activationDate |-> Null,
   lastVerification |-> Null, gracePeriodStart |-> Null, deviceId |-> dev,
   isValid |-> TRUE, daysUntilExpiry |-> Null]

\* A commit that writes the new key but leaves the old record's licenseType.
ActivatedLicense_KeepType(licenseKey, licenseType) ==
  [licenseKey |-> Some(licenseKey), licenseType |-> currentLicense.licenseType,
   activationDate |-> Some(now), lastVerification |-> Some(now),
   gracePeriodStart |-> Null, deviceId |-> deviceId, isValid |-> TRUE,
   daysUntilExpiry |-> IF licenseType = "student" THEN Some(365) ELSE Null]

\* The License record that a successful activateLicense commits.
ActivatedLicense(licenseKey, licenseType) ==
  [licenseKey |-> Some(licenseKey), licenseType |-> licenseType,
   activationDate |-> Some(now), lastVerification |-> Some(now),
   gracePeriodStart |-> Null, deviceId |-> deviceId, isValid |-> TRUE,
   daysUntilExpiry |-> IF licenseType = "student" THEN Some(365) ELSE Null]

\* A deactivation that reverts the tier but keeps the key of the old record.
DeactivatedLicense_KeepKey ==
  [licenseKey |-> IF currentLicense = Null THEN Null ELSE currentLicense.licenseKey,
   licenseType |-> "free", activationDate |-> Null,
   lastVerification |-> Null, gracePeriodStart |-> Null, deviceId |-> deviceId,
   isValid |-> TRUE, daysUntilExpiry |-> Null]

\* The free-tier License record that deactivateLicense installs.
DeactivatedLicense ==
  [licenseKey |-> Null, licenseType |-> "free", activationDate |-> Null,
   lastVerification |-> Null, gracePeriodStart |-> Null, deviceId |-> deviceId,
   isValid |-> TRUE, daysUntilExpiry |-> Null]

\* A clearCaches that leaves the map as it is.
clearCaches_Skip == featureCache

\* clearCaches: featureCache.clear()
clearCaches == EmptyCache

\* getLicenseLimits, evaluated on a given service state.
GetLicenseLimits(initialized, license) ==
  IF ~initialized \/ license = Null
  THEN [ok |-> FALSE, error |-> NotInitializedError]
  ELSE [ok |-> TRUE, value |-> LimitsOf(license.licenseType)]

initialize ==
  \E healthCheck \in {"healthy", "unhealthy", "rejects"}, userInfoThrows \in BOOLEAN :
    LET args == [healthCheck |-> healthCheck, userInfoThrows |-> userInfoThrows,
                 probes |-> 1] IN
      /\ UNCHANGED envVars
      /\ IF healthCheck = "rejects"
         THEN /\ result' = Threw("initialize", args, PlainError("health check rejected"))
              /\ UNCHANGED svcVars
         ELSE IF healthCheck = "unhealthy"
         THEN /\ result' = Threw("initialize", args, PlainError("Database connection failed"))
              /\ UNCHANGED svcVars
         ELSE IF userInfoThrows
         THEN /\ result' = Threw("initialize", args, PlainError("os.userInfo failed"))
              /\ UNCHANGED svcVars
         ELSE /\ deviceId' = Some(generateDeviceId)
              /\ currentLicense' = DefaultLicense(deviceId')
              /\ isInitialized' = TRUE
              /\ UNCHANGED featureCache
              /\ result' = Returned("initialize", args, Null)

\* A shutdown that forgets the license but keeps the device id.
shutdown_KeepDeviceId ==
  /\ isInitialized' = FALSE
  /\ currentLicense' = Null
  /\ featureCache' = EmptyCache
  /\ result' = Returned("shutdown", Null, Null)
  /\ UNCHANGED <<deviceId, envVars>>

shutdown ==
  /\ isInitialized' = FALSE
  /\ currentLicense' = Null
  /\ deviceId' = Null
  /\ featureCache' = EmptyCache
  /\ result' = Returned("shutdown", Null, Null)
  /\ UNCHANGED envVars

getLicenseInfo ==
  /\ result' = IF ~isInitialized \/ currentLicense = Null
               THEN Threw("getLicenseInfo", Null, NotInitializedError)
               ELSE Returned("getLicenseInfo", Null, currentLicense)
  /\ UNCHANGED <<svcVars, envVars>>

getDeviceId ==
  /\ result' = IF deviceId = Null
               THEN Threw("getDeviceId", Null, NotInitializedError)
               ELSE Returned("getDeviceId", Null, deviceId)
  /\ UNCHANGED <<svcVars, envVars>>

getLicenseLimits ==
  LET limits == GetLicenseLimits(isInitialized, currentLicense) IN
    /\ result' = IF limits.ok
                 THEN Returned("getLicenseLimits", Null, limits.value)
                 ELSE Threw("getLicenseLimits", Null, limits.error)
    /\ UNCHANGED <<svcVars, envVars>>

\* A LicenseValidationResult that reports a rejected key.
RejectedKey(limits, error) ==
  [isValid |-> FALSE, licenseType |-> "free", limits |-> limits, error |-> Some(error)]

activateLicense ==
  \E licenseKey \in Keys, dev \in RequestDeviceIds :
    LET request == [licenseKey |-> licenseKey, deviceId |-> dev]
        licenseType == validateLicenseKeyFormat(licenseKey)
        before == GetLicenseLimits(isInitialized, currentLicense)
    IN
      /\ UNCHANGED envVars
      /\ IF IsEmptyKey(licenseKey)
         THEN /\ result' = Threw("activateLicense", request,
                     LicenseError("INVALID_LICENSE_KEY", "License key cannot be empty"))
              /\ UNCHANGED svcVars
         ELSE IF dev = Null \/ dev # deviceId
         THEN /\ result' = Threw("activateLicense", request,
                     LicenseError("INVALID_LICENSE_KEY", "Invalid device ID"))
              /\ UNCHANGED svcVars
         ELSE IF licenseType = Null
         THEN /\ result' = IF before.ok
                           THEN Returned("activateLicense", request,
                                  RejectedKey(before.value, "Invalid license key format"))
                           ELSE Threw("activateLicense", request, before.error)
              /\ UNCHANGED svcVars
         ELSE IF Includes(licenseKey, W_EXPIRED)
         THEN /\ result' = IF before.ok
                           THEN Returned("activateLicense", request,
                                  RejectedKey(before.value, "License key has expired"))
                           ELSE Threw("activateLicense", request, before.error)
              /\ UNCHANGED svcVars
         ELSE /\ currentLicense' = ActivatedLicense(licenseKey, licenseType[1])
              /\ featureCache' = clearCaches
              /\ UNCHANGED <<isInitialized, deviceId>>
              /\ LET after == GetLicenseLimits(isInitialized, currentLicense') IN
                   result' = IF after.ok
                             THEN Returned("activateLicense", request,
                                    [isValid |-> TRUE, licenseType |-> licenseType[1],
                                     limits |-> after.value, error |-> Null])
                             ELSE Threw("activateLicense", request, after.error)

deactivateLicense ==
  /\ UNCHANGED envVars
  /\ IF ~isInitialized
     THEN /\ result' = Threw("deactivateLicense", Null, NotInitializedError)
          /\ UNCHANGED svcVars
     ELSE /\ currentLicense' = DeactivatedLicense
          /\ featureCache' = clearCaches
          /\ UNCHANGED <<isInitialized, deviceId>>
          /\ result' = Returned("deactivateLicense", Null, Null)

validateLicense ==
  /\ result' = IF ~isInitialized \/ currentLicense = Null
               THEN Threw("validateLicense", Null, NotInitializedError)
               ELSE Returned("validateLicense", Null,
                      [isValid |-> currentLicense.isValid,
                       licenseType |-> currentLicense.licenseType,
                       limits |-> LimitsOf(currentLicense.licenseType),
                       error |-> Null])
  /\ UNCHANGED <<svcVars, envVars>>

(***************************************************************************)
(* Memo limits.                                                            *)
(***************************************************************************)
\* The comparison with the limit itself allowed.
CountBelowLimit_Inclusive(currentCount, maxMemos) == currentCount <= maxMemos

\* currentCount < limits.maxMemos
CountBelowLimit(currentCount, maxMemos) == currentCount < maxMemos

\* The try block of canCreateMemo; countFails is whether getMemoCount rejects.
canCreateMemoTry(countFails) ==
  LET limits == GetLicenseLimits(isInitialized, currentLicense) IN
    IF ~limits.ok
    THEN [thrown |-> TRUE, error |-> limits.error, queried |-> FALSE]
    ELSE IF limits.value.maxMemos = -1
    THEN [thrown |-> FALSE, value |-> TRUE, queried |-> FALSE]
    ELSE IF countFails
    THEN [thrown |-> TRUE, error |-> CountFailedError, queried |-> TRUE]
    ELSE [thrown |-> FALSE, value |-> CountBelowLimit(memoCount, limits.value.maxMemos),
          queried |-> TRUE]

\* A catch block that answers false whatever the options say.
canCreateMemoCatch_AlwaysFalse(error, fallbackToConservative) ==
  [thrown |-> FALSE, value |-> FALSE]

\* The catch block of canCreateMemo.
canCreateMemoCatch(error, fallbackToConservative) ==
  IF fallbackToConservative
  THEN [thrown |-> FALSE, value |-> FALSE]
  ELSE IF error.name = "LicenseError"
  THEN [thrown |-> TRUE, error |-> error]
  ELSE [thrown |-> TRUE,
        error |-> LicenseError("DATABASE_ERROR", "Failed to retrieve memo count")]

\* canCreateMemo(options)
CanCreateMemo(fallbackToConservative, countFails) ==
  LET try == canCreateMemoTry(countFails) IN
    IF ~try.thrown
    THEN [thrown |-> FALSE, value |-> try.value, queried |-> try.queried]
    ELSE LET caught == canCreateMemoCatch(try.error, fallbackToConservative) IN
           IF caught.thrown
           THEN [thrown |-> TRUE, error |-> caught.error, queried |-> try.queried]
           ELSE [thrown |-> FALSE, value |-> caught.value, queried |-> try.queried]

\* What a step records about the repository: not asked, answered, or failed.
Repository(queried, countFails) ==
  IF ~queried THEN "not queried" ELSE IF countFails THEN "failed" ELSE "answered"

canCreateMemo ==
  \E fallbackToConservative \in BOOLEAN, countFails \in BOOLEAN :
    LET out == CanCreateMemo(fallbackToConservative, countFails)
        args == [fallbackToConservative |-> fallbackToConservative,
                 repository |-> Repository(out.queried, countFails)]
    IN
      /\ result' = IF out.thrown
                   THEN Threw("canCreateMemo", args, out.error)
                   ELSE Returned("canCreateMemo", args, out.value)
      /\ UNCHANGED <<svcVars, envVars>>

enforceCanCreateMemo ==
  \E countFails \in BOOLEAN :
    LET out == CanCreateMemo(FALSE, countFails)
        args == [repository |-> Repository(out.queried, countFails)]
    IN
      /\ result' = IF out.thrown
                   THEN Threw("enforceCanCreateMemo", args, out.error)
                   ELSE IF ~out.value
                   THEN Threw("enforceCanCreateMemo", args,
                          LicenseError("MEMO_LIMIT_EXCEEDED",
                            <<"Cannot create memo: free tier limit of ", 10,
                              " memos reached">>))
                   ELSE Returned("enforceCanCreateMemo", args, Null)
      /\ UNCHANGED <<svcVars, envVars>>

\* A status whose warning starts one memo too late.
MemoLimitStatusOf_LateWarning(currentCount, maxMemos) ==
  [currentCount |-> currentCount,
   maxCount |-> maxMemos,
   canCreate |-> (maxMemos = -1 \/ currentCount < maxMemos),
   remainingSlots |-> IF maxMemos = -1 THEN -1 ELSE Max(0, maxMemos - currentCount),
   nearLimit |-> (maxMemos # -1 /\ currentCount > maxMemos - 2)]

\* The MemoLimitStatus that getMemoLimitStatus builds.
MemoLimitStatusOf(currentCount, maxMemos) ==
  [currentCount |-> currentCount,
   maxCount |-> maxMemos,
   canCreate |-> (maxMemos = -1 \/ currentCount < maxMemos),
   remainingSlots |-> IF maxMemos = -1 THEN -1 ELSE Max(0, maxMemos - currentCount),
   nearLimit |-> (maxMemos # -1 /\ currentCount >= maxMemos - 2)]

\* A catch block that lets the repository's own error through.
getMemoLimitStatusCatch_Raw(error) == error

\* The catch block of getMemoLimitStatus.
getMemoLimitStatusCatch(error) ==
  IF error.name = "LicenseError"
  THEN error
  ELSE LicenseError("DATABASE_ERROR", "Failed to retrieve memo count")

\* A count remembered from before the last deletion.
getMemoCount_Remembered == memoCount + 1

\* await this.databaseService.getMemoCount(), when the repository answers.
getMemoCount == memoCount

\* getMemoLimitStatus()
GetMemoLimitStatus(countFails) ==
  LET limits == GetLicenseLimits(isInitialized, currentLicense) IN
    IF ~limits.ok
    THEN [thrown |-> TRUE, error |-> getMemoLimitStatusCatch(limits.error),
          queried |-> FALSE]
    ELSE IF countFails
    THEN [thrown |-> TRUE, error |-> getMemoLimitStatusCatch(CountFailedError),
          queried |-> TRUE]
    ELSE [thrown |-> FALSE, value |-> MemoLimitStatusOf(getMemoCount, limits.value.maxMemos),
          queried |-> TRUE]

getMemoLimitStatus ==
  \E countFails \in BOOLEAN :
    LET out == GetMemoLimitStatus(countFails)
        args == [repository |-> Repository(out.queried, countFails)]
    IN
      /\ result' = IF out.thrown
                   THEN Threw("getMemoLimitStatus", args, out.error)
                   ELSE Returned("getMemoLimitStatus", args, out.value)
      /\ UNCHANGED <<svcVars, envVars>>

refreshLimitStatus ==
  \E countFails \in BOOLEAN :
    LET out == GetMemoLimitStatus(countFails)
        args == [repository |-> Repository(out.queried, countFails)]
    IN
      /\ result' = IF out.thrown
                   THEN Threw("refreshLimitStatus", args, out.error)
                   ELSE Returned("refreshLimitStatus", args, Null)
      /\ UNCHANGED <<svcVars, envVars>>

(***************************************************************************)
(* Feature availability and its cache.                                     *)
(***************************************************************************)
\* The FeatureAvailability record computed on a cache miss.
Availability(feature, isAvailable) ==
  [feature |-> feature,
   available |-> isAvailable,
   reason |-> IF isAvailable THEN Null ELSE Some("license_required"),
   upgradeMessage |-> IF isAvailable THEN Null
                      ELSE Some(<<"Upgrade to access ", ReplaceUnderscore(feature)>>)]

\* cached && Date.now() - cached.timestamp < CACHE_TTL
CacheHit(cached) == cached # Null /\ now - cached[1].timestamp < CACHE_TTL

\* checkFeatureAvailability(feature): the outcome and the cache it leaves.
CheckFeatureAvailability(feature) ==
  IF ~isInitialized \/ currentLicense = Null
  THEN [thrown |-> TRUE, error |-> NotInitializedError, cache |-> featureCache]
  ELSE IF CacheHit(featureCache[feature])
  THEN [thrown |-> FALSE, value |-> featureCache[feature][1].result,
        cache |-> featureCache]
  ELSE LET limits == LimitsOf(currentLicense.licenseType)
           availability ==
             Availability(feature, ArrayIncludes(limits.featuresEnabled, feature))
       IN [thrown |-> FALSE, value |-> availability,
           cache |-> [featureCache EXCEPT
                        ![feature] = Some([result |-> availability, timestamp |-> now])]]

checkFeatureAvailability ==
  \E feature \in FeatureNames :
    LET out == CheckFeatureAvailability(feature) IN
      /\ featureCache' = out.cache
      /\ result' = IF out.thrown
                   THEN Threw("checkFeatureAvailability", feature, out.error)
                   ELSE Returned("checkFeatureAvailability", feature, out.value)
      /\ UNCHANGED <<isInitialized, currentLicense, deviceId, envVars>>

requireFeature ==
  \E feature \in FeatureNames :
    LET out == CheckFeatureAvailability(feature) IN
      /\ featureCache' = out.cache
      /\ result' = IF out.thrown
                   THEN Threw("requireFeature", feature, out.error)
                   ELSE IF ~out.value.available
                   THEN Threw("requireFeature", feature,
                          LicenseError("FEATURE_NOT_AVAILABLE",
                            <<"Feature ", feature, " requires paid license">>))
                   ELSE Returned("requireFeature", feature, Null)
      /\ UNCHANGED <<isInitialized, currentLicense, deviceId, envVars>>

(***************************************************************************)
(* Environment of the service: the clock and the repository's content.     *)
(***************************************************************************)
Tick ==
  /\ ticks < MaxTicks
  /\ \E d \in TickSteps : now' = now + d
  /\ ticks' = ticks + 1
  /\ result' = NoResult
  /\ UNCHANGED <<svcVars, memoCount, pc>>

\* DatabaseService.createMemo, as far as the count of active memos goes.
DatabaseCreateMemo ==
  /\ memoCount < MaxMemoCount
  /\ memoCount' = memoCount + 1
  /\ result' = NoResult
  /\ UNCHANGED <<svcVars, now, ticks, pc>>

\* DatabaseService.deleteMemo (soft delete), as far as the count goes.
DatabaseDeleteMemo ==
  /\ memoCount > 0
  /\ memoCount' = memoCount - 1
  /\ result' = NoResult
  /\ UNCHANGED <<svcVars, now, ticks, pc>>

\* The license lifecycle, the feature cache and the clock, over an empty repository.
Next ==
  \/ initialize /\ UNCHANGED gateVars
  \/ shutdown /\ UNCHANGED gateVars
  \/ getLicenseInfo /\ UNCHANGED gateVars
  \/ getDeviceId /\ UNCHANGED gateVars
  \/ getLicenseLimits /\ UNCHANGED gateVars
  \/ activateLicense /\ UNCHANGED gateVars
  \/ deactivateLicense /\ UNCHANGED gateVars
  \/ validateLicense /\ UNCHANGED gateVars
  \/ canCreateMemo /\ UNCHANGED gateVars
  \/ enforceCanCreateMemo /\ UNCHANGED gateVars
  \/ getMemoLimitStatus /\ UNCHANGED gateVars
  \/ refreshLimitStatus /\ UNCHANGED gateVars
  \/ checkFeatureAvailability /\ UNCHANGED gateVars
  \/ requireFeature /\ UNCHANGED gateVars
  \/ Tick /\ UNCHANGED gateVars

Spec == Init /\ [][Next]_vars

\* The license lifecycle and the memo-limit operations, over a repository whose
\* content changes between the calls.
NextLimits ==
  \/ initialize /\ UNCHANGED gateVars
  \/ shutdown /\ UNCHANGED gateVars
  \/ activateLicense /\ UNCHANGED gateVars
  \/ deactivateLicense /\ UNCHANGED gateVars
  \/ canCreateMemo /\ UNCHANGED gateVars
  \/ enforceCanCreateMemo /\ UNCHANGED gateVars
  \/ getMemoLimitStatus /\ UNCHANGED gateVars
  \/ refreshLimitStatus /\ UNCHANGED gateVars
  \/ DatabaseCreateMemo /\ UNCHANGED gateVars
  \/ DatabaseDeleteMemo /\ UNCHANGED gateVars

SpecLimits == Init /\ [][NextLimits]_vars

(***************************************************************************)
(* The renderer's memo creation path: useMemoStore.actions.createMemo asks *)
(* license:canCreateMemo and then invokes memo:create.  Each request is a  *)
(* process; the two IPC calls are separate steps, so that requests         *)
(* interleave at the awaits.                                               *)
(***************************************************************************)
\* checkCanCreateMemo via IPCHandler.handleLicenseCanCreateMemo:
\* response?.success && response.data === true
StoreCheckCanCreateMemo(countFails) ==
  LET out == CanCreateMemo(FALSE, countFails) IN ~out.thrown /\ out.value = TRUE

\* createMemo up to the await of window.electronAPI.memos.create
StoreCheck(r) ==
  /\ pc[r] = "idle"
  /\ \E countFails \in BOOLEAN :
       pc' = [pc EXCEPT ![r] = IF StoreCheckCanCreateMemo(countFails)
                               THEN "creating" ELSE "rejected"]
  /\ result' = NoResult
  /\ UNCHANGED <<svcVars, now, ticks, memoCount>>

\* IPCHandler.handleMemoCreate: validateInput, then databaseService.createMemo
StoreCreate(r) ==
  /\ pc[r] = "creating"
  /\ memoCount < MaxMemoCount
  /\ \E createFails \in BOOLEAN :
       IF createFails
       THEN /\ pc' = [pc EXCEPT ![r] = "failed"]
            /\ UNCHANGED memoCount
       ELSE /\ pc' = [pc EXCEPT ![r] = "created"]
            /\ memoCount' = memoCount + 1
  /\ result' = NoResult
  /\ UNCHANGED <<svcVars, now, ticks>>

\* The request is over; the user may issue the next one.
StoreDone(r) ==
  /\ pc[r] \in {"rejected", "failed", "created"}
  /\ pc' = [pc EXCEPT ![r] = "idle"]
  /\ result' = NoResult
  /\ UNCHANGED <<svcVars, now, ticks, memoCount>>

\* The renderer runs against a service that initialize() has left in Ready(free).
InitCreate ==
  /\ isInitialized = TRUE
  /\ deviceId = Some(generateDeviceId)
  /\ currentLicense = DefaultLicense(deviceId)
  /\ featureCache = EmptyCache
  /\ now = 0
  /\ ticks = 0
  /\ memoCount = 0
  /\ result = NoResult
  /\ pc = [r \in Requests |-> "idle"]
  /\ calls = [c \in CallIds |-> NoCall]
  /\ gateCache = EmptyGateCache
  /\ clearOwed = FALSE
  /\ featureDefinitions = FEATURE_DEFINITIONS

NextCreate ==
  \/ \E r \in Requests : StoreCheck(r) /\ UNCHANGED gateVars
  \/ \E r \in Requests : StoreCreate(r) /\ UNCHANGED gateVars
  \/ \E r \in Requests : StoreDone(r) /\ UNCHANGED gateVars
  \/ DatabaseDeleteMemo /\ UNCHANGED gateVars

SpecCreate == InitCreate /\ [][NextCreate]_vars

(***************************************************************************)
(* Calls in flight.  checkFeatureAvailability awaits getLicenseLimits      *)
(* between its cache miss and its cache write: getLicenseLimits runs when  *)
(* it is called, the rest of checkFeatureAvailability runs when the call   *)
(* is resumed, and other calls run in between.  Every other operation of   *)
(* the service reads and writes its fields before its first await.         *)
(***************************************************************************)
\* checkFeatureAvailability up to its await: the outcome when the call settles
\* at once, else the limits that getLicenseLimits has returned to it.
ServiceCallStart(feature) ==
  IF ~isInitialized \/ currentLicense = Null
  THEN [settled |-> TRUE, ok |-> FALSE, error |-> NotInitializedError]
  ELSE IF CacheHit(featureCache[feature])
  THEN [settled |-> TRUE, ok |-> TRUE, value |-> featureCache[feature][1].result]
  ELSE [settled |-> FALSE, limits |-> LimitsOf(currentLicense.licenseType)]

\* checkFeatureAvailability after its await: the availability it builds.
ServiceCallAvailability(feature, limits) ==
  Availability(feature, ArrayIncludes(limits.featuresEnabled, feature))

\* this.featureCache.set(feature, {result: availability, timestamp: Date.now()})
ServiceCacheSet(feature, availability) ==
  [featureCache EXCEPT ![feature] = Some([result |-> availability, timestamp |-> now])]

\* A caller invokes licenseService.checkFeatureAvailability(feature).
CheckStart(c) ==
  /\ calls[c].stage = "idle"
  /\ \E feature \in FeatureNames :
       LET start == ServiceCallStart(feature) IN
         IF start.settled
         THEN /\ result' = IF start.ok
                           THEN Returned("checkFeatureAvailability", feature, start.value)
                           ELSE Threw("checkFeatureAvailability", feature, start.error)
              /\ UNCHANGED calls
         ELSE /\ calls' = [calls EXCEPT ![c] =
                             [stage |-> "awaitLimits",
                              entry |-> "checkFeatureAvailability",
                              feature |-> feature, limits |-> start.limits]]
              /\ result' = NoResult
  /\ UNCHANGED <<svcVars, now, ticks, memoCount, pc, featureDefinitions, gateCache, clearOwed>>

\* The suspended checkFeatureAvailability resumes, writes the cache and returns.
CheckResume(c) ==
  /\ calls[c].stage = "awaitLimits"
  /\ calls[c].entry = "checkFeatureAvailability"
  /\ LET availability == ServiceCallAvailability(calls[c].feature, calls[c].limits) IN
       /\ featureCache' = ServiceCacheSet(calls[c].feature, availability)
       /\ result' = Returned("checkFeatureAvailability", calls[c].feature, availability)
  /\ calls' = [calls EXCEPT ![c] = NoCall]
  /\ UNCHANGED <<isInitialized, currentLicense, deviceId, now, ticks, memoCount, pc, featureDefinitions,
                 gateCache, clearOwed>>

\* Concurrent callers of a Ready service: feature checks in flight, license
\* changes and reads of the license, all within one tick of the clock.
NextAsync ==
  \/ \E c \in CallIds : CheckStart(c)
  \/ \E c \in CallIds : CheckResume(c)
  \/ activateLicense /\ UNCHANGED gateVars
  \/ deactivateLicense /\ UNCHANGED gateVars
  \/ getLicenseInfo /\ UNCHANGED gateVars

SpecAsync == InitCreate /\ [][NextAsync]_vars

(***************************************************************************)
(* FeatureGate: static lookups with a cache of their own in front of the   *)
(* service.  A lookup that misses the cache awaits the service's           *)
(* checkFeatureAvailability and, when that fails, a backoff timer; it is a *)
(* slot of calls while it is suspended.                                    *)
(***************************************************************************)
\* FeatureGate.CACHE_TTL, in milliseconds.
GATE_CACHE_TTL == 60 * 1000

FeatureGateError(code, message) ==
  [name |-> "FeatureGateError", code |-> code, message |-> message]

\* feature.trim() on the feature arguments below.
Trim(feature) == IF feature = " " THEN "" ELSE feature

\* The feature arguments: null or undefined, '', ' ' and the feature names.
FeatureInputs == {Null, Some(""), Some(" ")} \cup {Some(f) : f \in FeatureNames}

\* The licenseService arguments: null or undefined, and the service.
ServiceInputs == {Null, Some("licenseService")}

\* options.retryCount: absent, or a number.
RetryCounts == {Null} \cup {Some(n) : n \in 0..MaxRetryCount}

\* validateInputs: the error it throws, or null when it returns.
validateInputs(feature, licenseService) ==
  IF feature = Null \/ feature[1] = "" \/ Trim(feature[1]) = ""
  THEN Some(FeatureGateError("INVALID_FEATURE_NAME", "Feature name cannot be empty"))
  ELSE IF licenseService = Null
  THEN Some(FeatureGateError("INVALID_LICENSE_SERVICE", "License service is required"))
  ELSE Null

\* A hit that still serves the entry at the instant its TTL has elapsed.
GateCacheHit_Inclusive(cached) ==
  cached # Null /\ now - cached[1].timestamp <= GATE_CACHE_TTL

\* cached && Date.now() - cached.timestamp < this.CACHE_TTL
GateCacheHit(cached) ==
  cached # Null /\ now - cached[1].timestamp < GATE_CACHE_TTL

\* A retry budget that defaults to one retry when retryCount is absent.
maxRetries_DefaultOne(options) ==
  IF options.retryCount = Null THEN 1 ELSE options.retryCount[1]

\* options?.retryCount ?? 0
maxRetries(options) ==
  IF options.retryCount = Null THEN 0 ELSE options.retryCount[1]

\* Math.pow(2, attempt) * 100
Backoff(attempt) == (2 ^ attempt) * 100

\* A catch block that passes on whatever the try block threw.
getAvailabilityCatch_Rethrow(error, feature) == error

\* The catch block of getAvailability.
getAvailabilityCatch(error, feature) ==
  IF error.name = "FeatureGateError"
  THEN error
  ELSE FeatureGateError("LICENSE_SERVICE_ERROR",
         <<"Failed to get availability for feature: ", feature>>)

\* A catch block that passes the error on whatever the options say.
isAvailableCatch_NoFallback(error, options) ==
  IF error.name = "FeatureGateError"
  THEN [thrown |-> TRUE, error |-> error]
  ELSE [thrown |-> TRUE,
        error |-> FeatureGateError("LICENSE_SERVICE_ERROR",
                    "Error checking feature availability")]

\* The catch block of isAvailable.
isAvailableCatch(error, options) ==
  IF options.fallbackToConservative
  THEN [thrown |-> FALSE, value |-> FALSE]
  ELSE IF error.name = "FeatureGateError"
  THEN [thrown |-> TRUE, error |-> error]
  ELSE [thrown |-> TRUE,
        error |-> FeatureGateError("LICENSE_SERVICE_ERROR",
                    "Error checking feature availability")]

\* What an entry point hands to its caller, given how the try block of
\* getAvailability ended.  isAvailable validates the inputs itself first; the
\* error is the one getAvailability throws, and its catch passes it on unchanged.
GateOutcome(entry, args, try) ==
  LET inner == IF try.thrown
               THEN [thrown |-> TRUE,
                     error |-> getAvailabilityCatch(try.error, args.feature)]
               ELSE try
  IN IF entry = "getAvailability"
     THEN inner
     ELSE IF inner.thrown
     THEN isAvailableCatch(inner.error, args.options)
     ELSE [thrown |-> FALSE, value |-> inner.value.available]

\* The record of a lookup that has returned or thrown.
GateResult(entry, args, try) ==
  LET out == GateOutcome(entry, args, try) IN
    IF out.thrown THEN Threw(entry, args, out.error) ELSE Returned(entry, args, out.value)

\* licenseService.checkFeatureAvailability(feature), called by the gate: a
\* service that cannot be reached rejects; otherwise the call runs to its await.
GateInvoke(feature, rejects) ==
  IF rejects
  THEN [settled |-> TRUE, ok |-> FALSE, error |-> PlainError("Service unavailable")]
  ELSE ServiceCallStart(feature)

\* The slot of a lookup that has just called the service.
Invoked(entry, feature, gate, start) ==
  IF start.settled
  THEN [stage |-> "settled", entry |-> entry, feature |-> feature,
        outcome |-> start, gate |-> [gate EXCEPT !.invocations = @ + 1]]
  ELSE [stage |-> "awaitLimits", entry |-> entry, feature |-> feature,
        limits |-> start.limits, gate |-> [gate EXCEPT !.invocations = @ + 1]]

\* The arguments of a lookup: every combination, and the lookups of a valid
\* feature with no options.
GateInputs ==
  [feature : FeatureInputs, licenseService : ServiceInputs,
   options : [fallbackToConservative : BOOLEAN, retryCount : RetryCounts]]

PlainInputs ==
  {in \in GateInputs :
     /\ validateInputs(in.feature, in.licenseService) = Null
     /\ in.options = [fallbackToConservative |-> FALSE, retryCount |-> Null]}

\* Whether a call of the service is rejected because the service cannot be
\* reached: either way, and never.
Unreliable == BOOLEAN
Reachable == {FALSE}

\* The slot that a new lookup takes: the first one with no lookup in flight.
IsFreeSlot(c) ==
  /\ calls[c].stage = "idle"
  /\ \A d \in CallIds : d < c => calls[d].stage # "idle"

\* isAvailable or getAvailability, from the call to its first await.
GateEntry(c, entry, Inputs, Rejections) ==
  /\ IsFreeSlot(c)
  /\ \E in \in Inputs :
       LET feature == in.feature
           licenseService == in.licenseService
           options == in.options
           invalid == validateInputs(feature, licenseService)
           gate == [feature |-> feature, licenseService |-> licenseService,
                    options |-> options, hit |-> FALSE, attempt |-> 0,
                    invocations |-> 0, failures |-> 0]
       IN IF invalid # Null
          THEN /\ result' = GateResult(entry, gate, [thrown |-> TRUE, error |-> invalid[1]])
               /\ UNCHANGED calls
          ELSE IF deviceId = Null
          THEN /\ result' = GateResult(entry, gate,
                               [thrown |-> TRUE, error |-> NotInitializedError])
               /\ UNCHANGED calls
          ELSE LET cached == gateCache[cacheKey(feature[1], deviceId[1])] IN
                 IF GateCacheHit(cached)
                 THEN /\ result' = GateResult(entry, [gate EXCEPT !.hit = TRUE],
                                      [thrown |-> FALSE, value |-> cached[1].result])
                      /\ UNCHANGED calls
                 ELSE IF maxRetries(options) < 0
                 THEN /\ result' = GateResult(entry, gate,
                                      [thrown |-> TRUE, error |-> PlainError("Unknown error")])
                      /\ UNCHANGED calls
                 ELSE /\ \E rejects \in Rejections :
                           calls' = [calls EXCEPT ![c] =
                                       Invoked(entry, feature[1], gate,
                                               GateInvoke(feature[1], rejects))]
                      /\ result' = NoResult
  /\ UNCHANGED <<svcVars, now, ticks, memoCount, pc, featureDefinitions, gateCache, clearOwed>>

isAvailable(c) == GateEntry(c, "isAvailable", GateInputs, Unreliable)

getAvailability(c) == GateEntry(c, "getAvailability", GateInputs, Unreliable)

\* The service call made by a lookup resumes, writes the service's cache and
\* resolves; the lookup that awaits it is resumed in a later step.
GateServiceResume(c) ==
  /\ calls[c].stage = "awaitLimits"
  /\ calls[c].entry # "checkFeatureAvailability"
  /\ LET availability == ServiceCallAvailability(calls[c].feature, calls[c].limits) IN
       /\ featureCache' = ServiceCacheSet(calls[c].feature, availability)
       /\ calls' = [calls EXCEPT ![c] =
                     [stage |-> "settled", entry |-> calls[c].entry,
                      feature |-> calls[c].feature,
                      outcome |-> [settled |-> TRUE, ok |-> TRUE, value |-> availability],
                      gate |-> calls[c].gate]]
  /\ result' = NoResult
  /\ UNCHANGED <<isInitialized, currentLicense, deviceId, now, ticks, memoCount, pc, featureDefinitions,
                 gateCache, clearOwed>>

\* A lookup that returns the fetched result without caching it.
GateCacheSet_Skip(key, availability) == gateCache

\* this.featureCache.set(cacheKey, {result, timestamp: Date.now()})
GateCacheSet(key, availability) ==
  [gateCache EXCEPT ![key] = Some([result |-> availability, timestamp |-> now])]

\* A lookup that remembers the feature as unavailable when its last attempt
\* has failed.
GateResume_CachesFailure(c) ==
  /\ calls[c].stage = "settled"
  /\ calls[c].entry \in {"isAvailable", "getAvailability"}
  /\ LET call == calls[c]
         gate == call.gate
         key == cacheKey(call.feature, deviceId[1])
     IN IF call.outcome.ok
        THEN /\ gateCache' = GateCacheSet(key, call.outcome.value)
             /\ calls' = [calls EXCEPT ![c] = NoCall]
             /\ result' = GateResult(call.entry, gate,
                             [thrown |-> FALSE, value |-> call.outcome.value])
        ELSE IF gate.attempt < maxRetries(gate.options)
        THEN /\ calls' = [calls EXCEPT ![c] =
                            [stage |-> "backoff", entry |-> call.entry,
                             feature |-> call.feature,
                             wakeAt |-> now + Backoff(gate.attempt),
                             gate |-> [gate EXCEPT !.failures = @ + 1]]]
             /\ result' = NoResult
             /\ UNCHANGED gateCache
        ELSE /\ calls' = [calls EXCEPT ![c] = NoCall]
             /\ result' = GateResult(call.entry, [gate EXCEPT !.failures = @ + 1],
                             [thrown |-> TRUE, error |-> call.outcome.error])
             /\ gateCache' = GateCacheSet(key, Availability(call.feature, FALSE))
  /\ UNCHANGED <<svcVars, now, ticks, memoCount, pc, featureDefinitions, clearOwed>>

\* The lookup resumes with the outcome of its service call: it caches and
\* returns a result, or starts the backoff timer, or gives up.
GateResume(c) ==
  /\ calls[c].stage = "settled"
  /\ calls[c].entry \in {"isAvailable", "getAvailability"}
  /\ LET call == calls[c]
         gate == call.gate
         key == cacheKey(call.feature, deviceId[1])
     IN IF call.outcome.ok
        THEN /\ gateCache' = GateCacheSet(key, call.outcome.value)
             /\ calls' = [calls EXCEPT ![c] = NoCall]
             /\ result' = GateResult(call.entry, gate,
                             [thrown |-> FALSE, value |-> call.outcome.value])
        ELSE IF gate.attempt < maxRetries(gate.options)
        THEN /\ calls' = [calls EXCEPT ![c] =
                            [stage |-> "backoff", entry |-> call.entry,
                             feature |-> call.feature,
                             wakeAt |-> now + Backoff(gate.attempt),
                             gate |-> [gate EXCEPT !.failures = @ + 1]]]
             /\ result' = NoResult
             /\ UNCHANGED gateCache
        ELSE /\ calls' = [calls EXCEPT ![c] = NoCall]
             /\ result' = GateResult(call.entry, [gate EXCEPT !.failures = @ + 1],
                             [thrown |-> TRUE, error |-> call.outcome.error])
             /\ UNCHANGED gateCache
  /\ UNCHANGED <<svcVars, now, ticks, memoCount, pc, featureDefinitions, clearOwed>>

\* The backoff timer fires, which takes the clock to the time it was set for if
\* it is not there yet, and the lookup calls the service again.
GateRetry(c) ==
  /\ calls[c].stage = "backoff"
  /\ IF now >= calls[c].wakeAt
     THEN UNCHANGED <<now, ticks>>
     ELSE /\ ticks < MaxTicks
          /\ now' = calls[c].wakeAt
          /\ ticks' = ticks + 1
  /\ \E rejects \in BOOLEAN :
       calls' = [calls EXCEPT ![c] =
                   Invoked(calls[c].entry, calls[c].feature,
                           [calls[c].gate EXCEPT !.attempt = @ + 1],
                           GateInvoke(calls[c].feature, rejects))]
  /\ result' = NoResult
  /\ UNCHANGED <<svcVars, memoCount, pc, featureDefinitions, gateCache, clearOwed>>

\* FeatureGate.clearCache()
clearCache ==
  /\ gateCache' = EmptyGateCache
  /\ result' = Returned("clearCache", Null, Null)
  /\ UNCHANGED <<svcVars, now, ticks, memoCount, pc, featureDefinitions, calls, clearOwed>>

\* FeatureGate.clearCacheForLicense(), which the caller owes after a license change.
clearCacheForLicense ==
  /\ gateCache' = EmptyGateCache
  /\ clearOwed' = FALSE
  /\ result' = Returned("clearCacheForLicense", Null, Null)
  /\ UNCHANGED <<svcVars, now, ticks, memoCount, pc, featureDefinitions, calls>>

\* A caller's activateLicense that succeeds, which makes clearCacheForLicense due.
CallerActivateLicense ==
  /\ activateLicense
  /\ result'.status = "ok"
  /\ result'.value.isValid
  /\ clearOwed' = TRUE
  /\ UNCHANGED <<calls, gateCache, featureDefinitions>>

\* A caller's deactivateLicense that succeeds, which makes clearCacheForLicense due.
CallerDeactivateLicense ==
  /\ deactivateLicense
  /\ result'.status = "ok"
  /\ clearOwed' = TRUE
  /\ UNCHANGED <<calls, gateCache, featureDefinitions>>

\* Clock advances that put a lookup just before and exactly at either TTL and
\* let a backoff timer expire.
GateTickSteps == {1, GATE_CACHE_TTL - 1, CACHE_TTL - 1}

GateTick ==
  /\ ticks < MaxTicks
  /\ \E d \in GateTickSteps : now' = now + d
  /\ ticks' = ticks + 1
  /\ result' = NoResult
  /\ UNCHANGED <<svcVars, memoCount, pc, featureDefinitions, gateVars>>

\* Lookups of a valid feature, with no options, on a service that can be reached.
isAvailablePlain(c) == GateEntry(c, "isAvailable", PlainInputs, Reachable)

getAvailabilityPlain(c) == GateEntry(c, "getAvailability", PlainInputs, Reachable)

\* A caller that awaits each lookup before it makes the next one.
NoCallInFlight == \A c \in CallIds : calls[c].stage = "idle"

\* One caller making lookups one after the other, with every combination of
\* arguments, on a Ready(free) service that may be out of reach at any attempt.
NextGate ==
  \/ \E c \in CallIds : NoCallInFlight /\ isAvailable(c)
  \/ \E c \in CallIds : NoCallInFlight /\ getAvailability(c)
  \/ \E c \in CallIds : GateServiceResume(c)
  \/ \E c \in CallIds : GateResume(c)
  \/ \E c \in CallIds : GateRetry(c)
  \/ clearCache
  \/ clearCacheForLicense

SpecGate == InitCreate /\ [][NextGate]_vars

\* One caller making lookups and direct feature checks one after the other while
\* the clock passes the TTL of either cache.
NextTTL ==
  \/ \E c \in CallIds : NoCallInFlight /\ isAvailablePlain(c)
  \/ \E c \in CallIds : NoCallInFlight /\ getAvailabilityPlain(c)
  \/ \E c \in CallIds : GateServiceResume(c)
  \/ \E c \in CallIds : GateResume(c)
  \/ clearCache
  \/ NoCallInFlight /\ checkFeatureAvailability /\ UNCHANGED gateVars
  \/ GateTick

SpecTTL == InitCreate /\ [][NextTTL]_vars

\* Concurrent lookups over a service whose license changes, each change followed
\* at some point by the caller's clearCacheForLicense.
NextRace ==
  \/ \E c \in CallIds : isAvailablePlain(c)
  \/ \E c \in CallIds : GateServiceResume(c)
  \/ \E c \in CallIds : GateResume(c)
  \/ clearCacheForLicense
  \/ CallerActivateLicense
  \/ CallerDeactivateLicense

SpecRace == InitCreate /\ [][NextRace]_vars

(***************************************************************************)
(* Properties.                                                             *)
(***************************************************************************)
Ready == isInitialized /\ currentLicense # Null

PaidTiers == {"standard", "student", "enterprise"}

CacheIsEmpty == \A f \in FeatureNames : featureCache[f] = Null

\* The public operations of LicenseService other than initialize.
PublicOperations ==
  {"getLicenseInfo", "getLicenseLimits", "activateLicense", "deactivateLicense",
   "validateLicense", "checkFeatureAvailability", "requireFeature",
   "canCreateMemo", "enforceCanCreateMemo", "getMemoLimitStatus"}

\* C1: while the service is Uninitialized, every public operation other than
\* initialize fails with SERVICE_NOT_INITIALIZED and changes no state.
C1_UninitializedOperationsFail ==
  [][ (~isInitialized /\ result'.op \in PublicOperations)
        => /\ result'.status = "error"
           /\ result'.code = "SERVICE_NOT_INITIALIZED"
           /\ UNCHANGED svcVars ]_vars

\* Keys of the model that match none of the three tier patterns.
MalformedKeys == {KEY_INVALID_FORMAT, KEY_STUDENT_SHORT}

\* C2: in every tier, activateLicense with a non-empty key that matches no tier
\* pattern returns {isValid: false, licenseType: 'free', error: 'Invalid license
\* key format'} and leaves the License record and the feature cache as they were.
C2_MalformedKeyChangesNothing ==
  [][ (/\ Ready
       /\ result'.op = "activateLicense"
       /\ result'.args.licenseKey \in MalformedKeys
       /\ result'.args.deviceId = deviceId)
        => /\ result'.status = "ok"
           /\ result'.value.isValid = FALSE
           /\ result'.value.licenseType = "free"
           /\ result'.value.error = Some("Invalid license key format")
           /\ UNCHANGED svcVars ]_vars

\* C2 witness: a malformed key was rejected on a paid tier with a filled cache.
C2_Witness ==
  /\ result.op = "activateLicense"
  /\ result.args.licenseKey \in MalformedKeys
  /\ result.status = "ok"
  /\ currentLicense.licenseType = "standard"
  /\ featureCache["cloud_sync"] # Null

\* The tier that each well-formed key of the model belongs to.
TierOfKey(key) ==
  CASE key = KEY_STANDARD -> "standard"
    [] key = KEY_STUDENT -> "student"
    [] OTHER -> "none"

\* C3: after activateLicense succeeds with a key of tier T, the License record
\* has licenseType T, the given key, gracePeriodStart null and isValid true, the
\* feature cache is empty, and the result is {isValid: true, licenseType: T,
\* limits: limits of T}.
C3_ActivationCommits ==
  (result.op = "activateLicense" /\ result.status = "ok" /\ result.value.isValid)
    => LET T == TierOfKey(result.args.licenseKey) IN
         /\ T \in PaidTiers
         /\ currentLicense.licenseType = T
         /\ currentLicense.licenseKey = Some(result.args.licenseKey)
         /\ currentLicense.gracePeriodStart = Null
         /\ currentLicense.isValid = TRUE
         /\ CacheIsEmpty
         /\ result.value.licenseType = T
         /\ result.value.limits = LimitsOf(T)
         /\ result.value.limits.maxMemos = -1

\* C3 witness: a standard key was activated over a student license.
C3_Witness ==
  /\ result.op = "activateLicense"
  /\ result.status = "ok"
  /\ result.value.isValid
  /\ result.pre = "student"
  /\ currentLicense.licenseType = "standard"

\* C4, the state after a deactivation: free tier, no key, valid, limit 10, empty cache.
C4_Deactivated ==
  (result.op = "deactivateLicense" /\ result.status = "ok")
    => /\ currentLicense.licenseType = "free"
       /\ currentLicense.licenseKey = Null
       /\ currentLicense.isValid = TRUE
       /\ GetLicenseLimits(isInitialized, currentLicense).value.maxMemos = 10
       /\ CacheIsEmpty

\* C4: from any Ready state deactivateLicense resets the license to free with a
\* null key (valid, memo limit 10) and clears the feature cache, and a second
\* deactivateLicense in a row leaves the state of the first.
C4_DeactivateResetsIdempotent ==
  /\ []C4_Deactivated
  /\ [][ (/\ result.op = "deactivateLicense"
          /\ result.status = "ok"
          /\ result'.op = "deactivateLicense")
           => (result'.status = "ok" /\ UNCHANGED svcVars) ]_vars

\* C4 witness: a paid license was deactivated.
C4_Witness ==
  /\ result.op = "deactivateLicense"
  /\ result.status = "ok"
  /\ result.pre \in PaidTiers
  /\ currentLicense.licenseType = "free"

\* C5: every result of checkFeatureAvailability(f) has available = (f is in the
\* feature set of the tier current at the call), whatever operations came before.
C5_AvailabilityMatchesTier ==
  (result.op = "checkFeatureAvailability" /\ result.status = "ok")
    => result.value.available =
         ArrayIncludes(LimitsOf(currentLicense.licenseType).featuresEnabled, result.args)

\* C6: on the free tier canCreateMemo returns true exactly when the count is
\* below 10; on a paid tier it returns true without asking the repository.
C6_CanCreateMemo ==
  (result.op = "canCreateMemo" /\ Ready)
    => IF currentLicense.licenseType = "free"
       THEN /\ result.args.repository # "not queried"
            /\ result.args.repository = "answered"
                 => (result.status = "ok" /\ result.value = (memoCount < 10))
       ELSE /\ result.args.repository = "not queried"
            /\ result.status = "ok"
            /\ result.value = TRUE

\* C6 witness: the free tier refused at exactly 10 memos.
C6_Witness ==
  /\ result.op = "canCreateMemo"
  /\ Ready
  /\ currentLicense.licenseType = "free"
  /\ memoCount = 10
  /\ result.status = "ok"
  /\ result.value = FALSE
  /\ result.args.repository = "answered"

\* C7: on the free tier the memo creation path never takes the number of active
\* memos above 10, however the createMemo requests interleave.
C7_FreeTierNeverExceedsLimit ==
  (Ready /\ currentLicense.licenseType = "free") => memoCount <= 10

\* The maxMemos of each tier as the catalog states it.
MaxMemosOfTier(tier) == IF tier \in PaidTiers THEN -1 ELSE 10

\* C8: every MemoLimitStatus returned has currentCount = c, maxCount = the
\* tier's maxMemos, and remainingSlots, nearLimit and canCreate as derived from
\* them (unbounded: -1, false, true; bounded: max(0, max - c), max - c <= 2, c < max).
C8_MemoLimitStatus ==
  (result.op = "getMemoLimitStatus" /\ result.status = "ok")
    => LET st == result.value
           c == memoCount
           m == MaxMemosOfTier(currentLicense.licenseType)
       IN /\ st.currentCount = c
          /\ st.maxCount = m
          /\ IF m = -1
             THEN /\ st.remainingSlots = -1
                  /\ st.nearLimit = FALSE
                  /\ st.canCreate = TRUE
             ELSE /\ st.remainingSlots = Max(0, m - c)
                  /\ st.nearLimit = (m - c <= 2)
                  /\ st.canCreate = (c < m)

\* C8 witness: the free tier at 8 memos, where the warning starts.
C8_Witness ==
  /\ result.op = "getMemoLimitStatus"
  /\ result.status = "ok"
  /\ currentLicense.licenseType = "free"
  /\ memoCount = 8
  /\ result.value.nearLimit = TRUE
  /\ result.value.remainingSlots = 2

\* C9: when the count query fails on the free tier, canCreateMemo returns false
\* with fallbackToConservative and fails with DATABASE_ERROR without it; the
\* fallback turns nothing but a repository failure into false.
C9_FallbackOnlyForRepositoryFailure ==
  (result.op = "canCreateMemo")
    => /\ (result.pre = "free" /\ result.args.repository = "failed")
            => IF result.args.fallbackToConservative
               THEN result.status = "ok" /\ result.value = FALSE
               ELSE result.status = "error" /\ result.code = "DATABASE_ERROR"
       /\ (/\ result.args.fallbackToConservative
           /\ result.args.repository # "failed"
           /\ result.status = "ok"
           /\ result.value = FALSE)
            => (/\ result.pre = "free"
                /\ result.args.repository = "answered"
                /\ memoCount >= 10)

\* C10: when the count query fails, getMemoLimitStatus fails with DATABASE_ERROR
\* on every tier, returns no status and leaves the license state unchanged; in a
\* Ready service the count is queried on every tier.
C10_StatusFailsOnRepositoryFailure ==
  [][ (Ready /\ result'.op = "getMemoLimitStatus")
        => /\ result'.args.repository # "not queried"
           /\ result'.args.repository = "failed"
                => /\ result'.status = "error"
                   /\ result'.code = "DATABASE_ERROR"
                   /\ UNCHANGED svcVars ]_vars

\* C10 witness: the status query failed on an unlimited tier.
C10_Witness ==
  /\ result.op = "getMemoLimitStatus"
  /\ result.args.repository = "failed"
  /\ result.status = "error"
  /\ Ready
  /\ currentLicense.licenseType \in PaidTiers

\* C11: in a Ready service enforceCanCreateMemo resolves on every paid tier and,
\* on the free tier, resolves exactly when the count is below 10 and throws
\* MEMO_LIMIT_EXCEEDED (its message naming the limit 10) exactly when the count
\* is 10 or more; when the count query fails it throws DATABASE_ERROR instead.
C11_EnforceCanCreateMemo ==
  (result.op = "enforceCanCreateMemo" /\ Ready)
    => IF currentLicense.licenseType \in PaidTiers
       THEN result.status = "ok"
       ELSE /\ result.args.repository = "answered"
                 => /\ (result.status = "ok") = (memoCount < 10)
                    /\ (result.status = "error") = (memoCount >= 10)
                    /\ result.status = "error"
                         => /\ result.code = "MEMO_LIMIT_EXCEEDED"
                            /\ result.value.message[2] = FREE_MAX_MEMOS
            /\ result.args.repository = "failed"
                 => (result.status = "error" /\ result.code = "DATABASE_ERROR")
            /\ result.args.repository # "not queried"

\* C11 witness: the free tier refused at 10 memos, naming the limit.
C11_Witness ==
  /\ result.op = "enforceCanCreateMemo"
  /\ Ready
  /\ currentLicense.licenseType = "free"
  /\ memoCount = 10
  /\ result.args.repository = "answered"
  /\ result.code = "MEMO_LIMIT_EXCEEDED"

\* The elements of an array.
Elements(arr) == {arr[i] : i \in 1..Len(arr)}

\* Tier values: the four of LicenseType and two that are none of them.
TierValues == {"free", "standard", "student", "enterprise", "trial", ""}

FreeFeatureSet == {"basic_notes", "simple_positioning", "basic_theming"}
PaidOnlyFeatureSet ==
  {"advanced_formatting", "cloud_sync", "premium_themes", "export_features",
   "advanced_search"}

\* The limits that the catalog states for a tier value.
C12_LimitsAsStated(limits, tier) ==
  /\ limits.maxConcurrentMemos = -1
  /\ FreeFeatureSet \subseteq Elements(limits.featuresEnabled)
  /\ IF tier \in PaidTiers
     THEN /\ limits.maxMemos = -1
          /\ Elements(limits.featuresEnabled) = FreeFeatureSet \cup PaidOnlyFeatureSet
     ELSE /\ limits.maxMemos = 10
          /\ Elements(limits.featuresEnabled) = FreeFeatureSet

\* C12: getLicenseLimits depends on the current tier only: free and unknown tier
\* values give maxMemos 10 with the three free features; standard, student and
\* enterprise give maxMemos -1 with the free features plus the five paid ones;
\* maxConcurrentMemos is -1 everywhere and every paid set contains the free set.
C12_LimitsAreFunctionOfTier ==
  /\ \A tier \in TierValues : C12_LimitsAsStated(LimitsOf(tier), tier)
  /\ (result.op = "getLicenseLimits" /\ result.status = "ok")
       => C12_LimitsAsStated(result.value, currentLicense.licenseType)

\* C12 witness: the limits were read on the student tier, the clock advanced
\* and the feature cache filled.
C12_Witness ==
  /\ result.op = "getLicenseLimits"
  /\ result.status = "ok"
  /\ currentLicense.licenseType = "student"
  /\ result.value.maxMemos = -1
  /\ now > 0
  /\ ~CacheIsEmpty

\* A License record that is one committed record, not a mix of two.
C13_Committed(license) ==
  /\ (license.licenseType = "free") = (license.licenseKey = Null)
  /\ license.licenseKey = Null
       => (license.activationDate = Null /\ license.lastVerification = Null)
  /\ license.licenseKey # Null
       => license.licenseType = TierOfKey(license.licenseKey[1])
  /\ license.deviceId = deviceId

\* C13: however getLicenseInfo interleaves with activateLicense, deactivateLicense
\* and suspended feature checks, every License it returns (and the record held at
\* any moment) is one committed record: free exactly when the key is null (then
\* no activation or verification date), the tier of its key otherwise, and the
\* service's device id.
C13_LicenseNeverMixed ==
  /\ Ready => C13_Committed(currentLicense)
  /\ (result.op = "getLicenseInfo" /\ result.status = "ok")
       => (C13_Committed(result.value) /\ result.value = currentLicense)

\* C13 witness: the license was read after an activation while a feature check
\* begun on the free tier is still suspended.
C13_Witness ==
  /\ result.op = "getLicenseInfo"
  /\ result.status = "ok"
  /\ result.value.licenseType = "student"
  /\ \E c \in CallIds :
       /\ calls[c].stage = "awaitLimits"
       /\ calls[c].limits.maxMemos = FREE_MAX_MEMOS

\* C14: once every in-flight checkFeatureAvailability call has completed, however
\* the calls interleaved with activateLicense and deactivateLicense, the service's
\* cache holds no entry whose available flag differs from the feature's
\* membership in the current tier's feature set.
C14_NoStaleEntryAfterRaces ==
  (Ready /\ \A c \in CallIds : calls[c].stage = "idle")
    => \A f \in FeatureNames :
         featureCache[f] # Null
           => featureCache[f][1].result.available =
                ArrayIncludes(LimitsOf(currentLicense.licenseType).featuresEnabled, f)

\* The lookups through FeatureGate and the calls that empty its cache.
GateLookups == {"isAvailable", "getAvailability"}
GateClears == {"clearCache", "clearCacheForLicense"}

\* A completed lookup whose arguments passed validateInputs.
ValidLookup(r) ==
  /\ r.op \in GateLookups
  /\ r.args.feature \in {Some(f) : f \in FeatureNames}
  /\ r.args.licenseService # Null

\* The FeatureGate cache entry that a completed lookup was about.
GateEntryOf(r) == gateCache[cacheKey(r.args.feature[1], deviceId[1])]

\* C15 as stated: every isAvailable call within the TTL window that succeeds
\* (answered from the cache or by the service) invokes the service once if it is
\* the first fetch and not at all otherwise.
C15_ExactlyOnceInTotal ==
  (/\ ValidLookup(result)
   /\ result.op = "isAvailable"
   /\ result.status = "ok"
   /\ (result.args.hit \/ result.args.invocations > result.args.failures))
    => result.args.invocations = IF result.args.hit THEN 0 ELSE 1

\* C15, amended: for a fixed (feature, deviceId), a lookup made while an
\* unexpired entry exists is answered from it with no service invocation; a
\* lookup misses only when no such entry exists, and the one that fetches makes
\* one invocation per attempt (one more than the attempts that failed) and
\* leaves an entry cached at the time it returns; no lookup made right after
\* clearCache() or clearCacheForLicense() is answered from the cache.
C15_CachedLookupsInvokeOnce ==
  /\ [](ValidLookup(result) /\ result.status = "ok" /\ result.op = "isAvailable"
          => /\ result.args.hit
                  => /\ result.args.invocations = 0
                     /\ GateEntryOf(result) # Null
                     /\ result.value = GateEntryOf(result)[1].result.available
             /\ (~result.args.hit /\ result.args.invocations > result.args.failures)
                  => /\ result.args.invocations = result.args.failures + 1
                     /\ GateEntryOf(result) # Null
                     /\ GateEntryOf(result)[1].timestamp = now
                     /\ GateEntryOf(result)[1].result.available = result.value)
  /\ [][ \A c \in CallIds :
           (calls[c].stage = "idle" /\ calls'[c].stage # "idle")
             => /\ ~(LET e == gateCache[cacheKey(calls'[c].feature, deviceId[1])] IN
                       e # Null /\ now - e[1].timestamp < 60000)
                /\ calls'[c].gate.invocations = 1 ]_vars
  /\ [][ (result.op \in GateClears /\ result'.op \in GateLookups)
           => ~result'.args.hit ]_vars

\* C15 witness: isAvailable was answered from the cache without invoking the
\* service, after an earlier lookup had needed a retry to fetch the entry.
C15_Witness ==
  /\ result.op = "isAvailable"
  /\ result.status = "ok"
  /\ result.args.hit
  /\ result.args.invocations = 0
  /\ result.value = TRUE
  /\ now > 0

\* An entry cached at cachedAt is served at time t only while t - cachedAt < ttl.
Served(entry, t, ttl) == entry # Null /\ t - entry[1].timestamp < ttl

\* C16, FeatureGate (TTL 60 s): a lookup is answered from the cache only while
\* now - cachedAt < 60000, with the cached result and no change to either cache;
\* a lookup goes to the service only when the entry is absent or now - cachedAt
\* >= 60000, and its result overwrites the entry with cachedAt = now.
C16_GateEntryServedWithinTTL ==
  /\ [][ (result'.op \in GateLookups /\ result'.args.hit)
           => LET e == gateCache[cacheKey(result'.args.feature[1], deviceId[1])] IN
                /\ Served(e, now, 60000)
                /\ result'.status = "ok"
                /\ result'.value = IF result'.op = "isAvailable"
                                   THEN e[1].result.available ELSE e[1].result
                /\ UNCHANGED <<gateCache, featureCache>> ]_vars
  /\ [][ \A c \in CallIds :
           (calls[c].stage = "idle" /\ calls'[c].stage # "idle")
             => /\ ~Served(gateCache[cacheKey(calls'[c].feature, deviceId[1])], now, 60000)
                /\ calls'[c].gate.invocations = 1 ]_vars
  /\ [](ValidLookup(result) /\ result.status = "ok" /\ ~result.args.hit
          => /\ GateEntryOf(result) # Null
             /\ GateEntryOf(result)[1].timestamp = now
             /\ result.value = IF result.op = "isAvailable"
                                THEN GateEntryOf(result)[1].result.available
                                ELSE GateEntryOf(result)[1].result)

\* C16, LicenseService (TTL 5 min): checkFeatureAvailability returns the cached
\* result, leaving the cache as it is, exactly while now - cachedAt < 300000;
\* otherwise it overwrites the entry with its result and cachedAt = now.
C16_ServiceEntryServedWithinTTL ==
  [][ (result'.op = "checkFeatureAvailability" /\ result'.status = "ok")
        => LET e == featureCache[result'.args] IN
             IF Served(e, now, 300000)
             THEN result'.value = e[1].result /\ UNCHANGED featureCache
             ELSE featureCache' =
                    [featureCache EXCEPT ![result'.args] =
                       Some([result |-> result'.value, timestamp |-> now])] ]_vars

\* C16: a cache entry is served only while now - cachedAt < TTL (60 s in
\* FeatureGate, 5 min in LicenseService); a lookup at cachedAt + TTL or later
\* recomputes and overwrites the entry with a new cachedAt, a lookup before that
\* never reaches the underlying computation.
C16_EntryServedOnlyWithinTTL ==
  C16_GateEntryServedWithinTTL /\ C16_ServiceEntryServedWithinTTL

\* C16 witness: a lookup made exactly 60 s after the entry was cached has gone
\* to the service instead of being answered from the cache.
C16_Witness ==
  \E c \in CallIds :
    /\ calls[c].stage # "idle"
    /\ LET e == gateCache[cacheKey(calls[c].feature, deviceId[1])] IN
         e # Null /\ now - e[1].timestamp = GATE_CACHE_TTL

\* The boundary instant in LicenseService: a lookup made at time 5 min has
\* computed its result and stored it with cachedAt = 5 min.
C16_ServiceWitness ==
  \E f \in FeatureNames :
    /\ result.op = "checkFeatureAvailability" /\ result.args = f
    /\ featureCache[f] # Null /\ featureCache[f][1].timestamp = CACHE_TTL

\* C17: when clearCacheForLicense has followed every successful license change,
\* an isAvailable(f, service) answered at once returns f's membership in the
\* feature set of the tier current at that call, whatever lookups begun before
\* the change have completed in between.
C17_AvailabilityOfCurrentTierAfterClear ==
  (/\ result.op = "isAvailable" /\ result.status = "ok" /\ result.args.hit
   /\ ~clearOwed /\ Ready)
    => result.value =
         ArrayIncludes(LimitsOf(currentLicense.licenseType).featuresEnabled,
                       result.args.feature[1])

\* The feature names and service references that validateInputs must refuse.
InvalidFeature(feature) == feature \in {Null, Some(""), Some(" ")}
InvalidService(licenseService) == licenseService = Null

\* C18: a FeatureGate lookup whose feature name is absent, empty or blank throws
\* INVALID_FEATURE_NAME, and one whose service is absent throws
\* INVALID_LICENSE_SERVICE, whatever its options, and leaves both caches as they
\* were without calling the license service.
C18_InvalidInputsAlwaysThrow ==
  [][ (/\ result'.op \in GateLookups
       /\ \/ InvalidFeature(result'.args.feature)
          \/ InvalidService(result'.args.licenseService))
        => /\ result'.status = "error"
           /\ result'.code = IF InvalidFeature(result'.args.feature)
                             THEN "INVALID_FEATURE_NAME"
                             ELSE "INVALID_LICENSE_SERVICE"
           /\ result'.args.invocations = 0
           /\ UNCHANGED <<gateCache, featureCache>> ]_vars

\* The same property for lookups made without fallbackToConservative.
C18_InvalidInputsThrowWithoutFallback ==
  [][ (/\ result'.op \in GateLookups
       /\ ~result'.args.options.fallbackToConservative
       /\ \/ InvalidFeature(result'.args.feature)
          \/ InvalidService(result'.args.licenseService))
        => /\ result'.status = "error"
           /\ result'.code = IF InvalidFeature(result'.args.feature)
                             THEN "INVALID_FEATURE_NAME"
                             ELSE "INVALID_LICENSE_SERVICE"
           /\ result'.args.invocations = 0
           /\ UNCHANGED <<gateCache, featureCache>> ]_vars

\* The number n of retries a call asks for; none when retryCount is absent.
RetryBudget(options) ==
  IF options.retryCount = Null THEN 0 ELSE options.retryCount[1]

\* The lookups through FeatureGate that are in flight.
GateCallsInFlight ==
  {c \in CallIds : calls[c].stage # "idle" /\ calls[c].entry \in GateLookups}

\* What is left for a lookup in flight to do: three steps per attempt not yet
\* made, and the steps left in the current attempt.
StepsLeft(call) ==
  3 * (RetryBudget(call.gate.options) - call.gate.attempt)
    + (CASE call.stage = "awaitLimits" -> 2
         [] call.stage = "settled" -> 1
         [] OTHER -> 0)

\* C19: on a cache miss a lookup with retryCount = n invokes
\* service.checkFeatureAvailability at most n + 1 times (once when retryCount is
\* absent), each step of the lookup brings it closer to its end, it returns at
\* the first invocation that succeeds, and it gives up only after n + 1 failures.
C19_RetriesBounded ==
  /\ [](\A c \in GateCallsInFlight :
          LET gate == calls[c].gate
              n == RetryBudget(gate.options)
          IN /\ gate.invocations = gate.attempt + 1
             /\ gate.invocations <= n + 1
             /\ gate.failures = IF calls[c].stage = "backoff"
                                THEN gate.invocations ELSE gate.invocations - 1
             /\ calls[c].stage = "backoff" => gate.invocations <= n
             /\ StepsLeft(calls[c]) >= 0)
  /\ [][ \A c \in CallIds :
           (c \in GateCallsInFlight /\ calls'[c] # calls[c] /\ calls'[c].stage # "idle")
             => StepsLeft(calls'[c]) < StepsLeft(calls[c]) ]_vars
  /\ [](ValidLookup(result) /\ ~result.args.hit
          => LET n == RetryBudget(result.args.options) IN
               /\ result.args.invocations >= 1
               /\ result.args.invocations <= n + 1
               /\ result.args.options.retryCount = Null => result.args.invocations = 1
               /\ \/ result.args.invocations = result.args.failures + 1
                  \/ /\ result.args.invocations = result.args.failures
                     /\ result.args.invocations = n + 1)

\* C19 witness: a lookup with retryCount 1 whose first invocation failed has
\* returned after its second invocation, which succeeded.
C19_Witness ==
  /\ ValidLookup(result)
  /\ result.status = "ok"
  /\ ~result.args.hit
  /\ result.args.options.retryCount = Some(1)
  /\ ~result.args.options.fallbackToConservative
  /\ result.args.invocations = 2
  /\ result.args.failures = 1

\* C20: an isAvailable call that missed the cache and whose every attempt failed
\* returns false when fallbackToConservative is set and otherwise rejects; when
\* one of its attempts succeeded it returns the available flag of the result
\* that attempt fetched (the one it has just cached), with no error reported.
C20_ExhaustedRetriesFallBackOrReject ==
  (ValidLookup(result) /\ result.op = "isAvailable" /\ ~result.args.hit)
    => IF result.args.invocations = result.args.failures
       THEN IF result.args.options.fallbackToConservative
            THEN result.status = "ok" /\ result.value = FALSE
            ELSE result.status = "error" /\ result.code = "LICENSE_SERVICE_ERROR"
       ELSE /\ result.status = "ok"
            /\ GateEntryOf(result) # Null
            /\ GateEntryOf(result)[1].timestamp = now
            /\ result.value = GateEntryOf(result)[1].result.available

\* C20 witness: with retryCount 1 and fallbackToConservative set, both
\* invocations failed and isAvailable returned false.
C20_Witness ==
  /\ ValidLookup(result)
  /\ result.op = "isAvailable"
  /\ result.args.options.fallbackToConservative
  /\ result.args.options.retryCount = Some(1)
  /\ result.args.invocations = 2
  /\ result.args.failures = 2
  /\ result.status = "ok"
  /\ result.value = FALSE

\* The other two cases of C20: a rejection after the only attempt failed, and
\* true returned by the attempt that followed a failed one.
C20_WitnessRejected ==
  /\ ValidLookup(result)
  /\ result.op = "isAvailable"
  /\ ~result.args.options.fallbackToConservative
  /\ result.args.invocations = result.args.failures
  /\ result.status = "error"

C20_WitnessLaterSuccess ==
  /\ ValidLookup(result)
  /\ result.op = "isAvailable"
  /\ result.args.failures = 1
  /\ result.args.invocations = 2
  /\ result.value = TRUE

(***************************************************************************)
(* FeatureGate: the bulk queries.  checkMultipleFeatures starts one         *)
(* getAvailability per listed feature, in list order, each running to its   *)
(* first await; the i-th lookup of the call in flight is in slot i.         *)
(***************************************************************************)

BulkEntries == {"checkMultipleFeatures", "getAvailableFeatures", "getUnavailableFeatures"}

\* The feature lists handed to a bulk query, repetitions included.
FeatureLists == UNION {[1..n -> FeatureNames] : n \in 0..NumCalls}

\* this.getAvailability(feature, licenseService), up to its first await: the
\* i-th promise of features.map(...).
BulkLookup(entry, feature, rejects) ==
  LET gate == [feature |-> Some(feature), licenseService |-> Some("licenseService"),
               options |-> [fallbackToConservative |-> FALSE, retryCount |-> Null],
               hit |-> FALSE, attempt |-> 0, invocations |-> 0, failures |-> 0,
               finished |-> 0]
  IN IF deviceId = Null
     THEN [stage |-> "done", entry |-> entry, feature |-> feature, gate |-> gate,
           outcome |-> [thrown |-> TRUE, error |-> NotInitializedError]]
     ELSE LET cached == gateCache[cacheKey(feature, deviceId[1])] IN
            IF GateCacheHit(cached)
            THEN [stage |-> "done", entry |-> entry, feature |-> feature,
                  gate |-> [gate EXCEPT !.hit = TRUE],
                  outcome |-> [thrown |-> FALSE, value |-> cached[1].result]]
            ELSE Invoked(entry, feature, gate, GateInvoke(feature, rejects))

\* The number of lookups of the bulk query in flight, and its feature list.
BulkLen(slots) == Cardinality({c \in CallIds : slots[c].stage # "idle"})
BulkFeatures(slots) == [i \in 1..BulkLen(slots) |-> slots[i].feature]

\* The place of lookup d among the lookups in the order they finished.
FinishedBefore(slots, e, d) ==
  \/ slots[e].gate.finished < slots[d].gate.finished
  \/ slots[e].gate.finished = slots[d].gate.finished /\ e < d

\* Results collected in the order the lookups finished.
BulkAvailabilities_CompletionOrder(slots) ==
  [i \in 1..BulkLen(slots) |->
     LET d == CHOOSE d \in 1..BulkLen(slots) :
                Cardinality({e \in 1..BulkLen(slots) : FinishedBefore(slots, e, d)}) = i - 1
     IN slots[d].outcome.value]

\* Promise.all(promises): the i-th value is the one the i-th promise resolved to.
BulkAvailabilities(slots) ==
  [i \in 1..BulkLen(slots) |-> slots[i].outcome.value]

IsAvailable(availability) == availability.available
IsUnavailable(availability) == ~availability.available

\* What each bulk query makes of the availabilities.
BulkValue(entry, availabilities) ==
  CASE entry = "checkMultipleFeatures" -> availabilities
    [] entry = "getAvailableFeatures" ->
         LET kept == SelectSeq(availabilities, IsAvailable) IN
           [i \in 1..Len(kept) |-> kept[i].feature]
    [] entry = "getUnavailableFeatures" -> SelectSeq(availabilities, IsUnavailable)

\* The record of a bulk query that has returned its list.
BulkReturned(entry, slots) ==
  Returned(entry,
           [features |-> BulkFeatures(slots),
            availabilities |-> BulkAvailabilities(slots),
            finished |-> [i \in 1..BulkLen(slots) |-> slots[i].gate.finished]],
           BulkValue(entry, BulkAvailabilities(slots)))

\* The record of a bulk query rejected with the error of one of its lookups.
BulkThrew(entry, slots, error) ==
  Threw(entry, [features |-> BulkFeatures(slots)], error)

\* A bulk query, from the call to its await: every lookup is started; the query
\* returns at once when there is nothing left to wait for.
BulkEntry(entry, Rejections) ==
  /\ \A c \in CallIds : calls[c].stage = "idle"
  /\ \E features \in FeatureLists :
       \E rejects \in [1..Len(features) -> Rejections] :
         LET started == [c \in CallIds |->
                           IF c <= Len(features)
                           THEN BulkLookup(entry, features[c], rejects[c])
                           ELSE NoCall]
             failed == {c \in 1..Len(features) : started[c].stage = "done"
                                                   /\ started[c].outcome.thrown}
         IN IF \A c \in 1..Len(features) : started[c].stage = "done"
            THEN /\ result' = IF failed # {}
                              THEN LET first == CHOOSE c \in failed :
                                                  \A d \in failed : c <= d
                                   IN BulkThrew(entry, started,
                                        getAvailabilityCatch(started[first].outcome.error,
                                                             Some(features[first])))
                              ELSE BulkReturned(entry, started)
                 /\ UNCHANGED calls
            ELSE /\ calls' = started
                 /\ result' = NoResult
  /\ UNCHANGED <<svcVars, now, ticks, memoCount, pc, featureDefinitions, gateCache, clearOwed>>

checkMultipleFeatures == BulkEntry("checkMultipleFeatures", Unreliable)

getAvailableFeatures == BulkEntry("getAvailableFeatures", Unreliable)

getUnavailableFeatures == BulkEntry("getUnavailableFeatures", Unreliable)

\* One lookup of the bulk query resumes with the outcome of its service call:
\* it caches and resolves, or rejects.  The first rejection rejects the query;
\* when the last lookup has resolved the query returns its list.
BulkLookupResume(c) ==
  /\ calls[c].stage = "settled"
  /\ calls[c].entry \in BulkEntries
  /\ LET call == calls[c]
         gate == call.gate
         key == cacheKey(call.feature, deviceId[1])
         rank == Cardinality({d \in CallIds : calls[d].stage = "done"
                                               /\ calls[d].gate.finished > 0}) + 1
         outcome == IF call.outcome.ok
                    THEN [thrown |-> FALSE, value |-> call.outcome.value]
                    ELSE [thrown |-> TRUE,
                          error |-> getAvailabilityCatch(call.outcome.error, gate.feature)]
         slots == [calls EXCEPT ![c] =
                     [stage |-> "done", entry |-> call.entry, feature |-> call.feature,
                      outcome |-> outcome,
                      gate |-> [gate EXCEPT !.finished = rank,
                                            !.failures = IF call.outcome.ok THEN @ ELSE @ + 1]]]
         rejected == \E d \in CallIds : calls[d].stage = "done" /\ calls[d].outcome.thrown
         allDone == \A d \in CallIds : slots[d].stage \in {"idle", "done"}
     IN /\ gateCache' = IF call.outcome.ok
                        THEN GateCacheSet(key, call.outcome.value)
                        ELSE gateCache
        /\ calls' = IF allDone THEN [d \in CallIds |-> NoCall] ELSE slots
        /\ result' = IF rejected THEN NoResult
                     ELSE IF outcome.thrown THEN BulkThrew(call.entry, slots, outcome.error)
                     ELSE IF allDone THEN BulkReturned(call.entry, slots)
                     ELSE NoResult
  /\ UNCHANGED <<svcVars, now, ticks, memoCount, pc, featureDefinitions, clearOwed>>

\* A license change that succeeds while bulk queries are made.
BulkLicenseChange ==
  /\ activateLicense \/ deactivateLicense
  /\ result'.status = "ok"
  /\ result'.op = "activateLicense" => result'.value.isValid
  /\ UNCHANGED gateVars

\* One caller making bulk queries one after the other, the license changing
\* between them, on a service that may be out of reach for any lookup.
NextBulk ==
  \/ checkMultipleFeatures
  \/ getAvailableFeatures
  \/ getUnavailableFeatures
  \/ \E c \in CallIds : GateServiceResume(c)
  \/ \E c \in CallIds : BulkLookupResume(c)
  \/ clearCache
  \/ NoCallInFlight /\ BulkLicenseChange

SpecBulk == InitCreate /\ [][NextBulk]_vars

\* The features that the lookups of a returned bulk query found available.
FoundAvailable(r) ==
  {r.args.availabilities[i].feature :
     i \in {j \in 1..Len(r.args.availabilities) : r.args.availabilities[j].available}}

\* The sub-sequence of features whose members are in, or are not in, a set.
SubSeqIn(features, A) ==
  LET Keep(f) == f \in A IN SelectSeq(features, Keep)
SubSeqNotIn(features, A) ==
  LET Keep(f) == f \notin A IN SelectSeq(features, Keep)

\* C21: a bulk query that returns preserves the order of its input whatever
\* order its lookups finished in: checkMultipleFeatures returns one result per
\* listed feature with result[i].feature = features[i]; getAvailableFeatures
\* returns the sub-sequence of the features found available and
\* getUnavailableFeatures the results of the sub-sequence found unavailable, so
\* that the two split the input between them.
C21_BulkQueriesPreserveOrder ==
  (result.op \in BulkEntries /\ result.status = "ok")
    => LET features == result.args.features
           A == FoundAvailable(result)
       IN /\ \A i \in 1..Len(features) :
               result.args.availabilities[i].available <=> features[i] \in A
          /\ result.op = "checkMultipleFeatures"
               => /\ Len(result.value) = Len(features)
                  /\ \A i \in 1..Len(features) : result.value[i].feature = features[i]
          /\ result.op = "getAvailableFeatures"
               => result.value = SubSeqIn(features, A)
          /\ result.op = "getUnavailableFeatures"
               => /\ [i \in 1..Len(result.value) |-> result.value[i].feature]
                       = SubSeqNotIn(features, A)
                  /\ \A i \in 1..Len(result.value) : ~result.value[i].available
          /\ Len(SubSeqIn(features, A)) + Len(SubSeqNotIn(features, A)) = Len(features)

\* C21 witness: checkMultipleFeatures(['basic_notes', 'cloud_sync']) has
\* returned the two results in input order although the second lookup finished
\* first, one feature being available and the other not.
C21_Witness ==
  /\ result.op = "checkMultipleFeatures"
  /\ result.status = "ok"
  /\ result.args.features = <<"basic_notes", "cloud_sync">>
  /\ result.args.finished = <<2, 1>>
  /\ result.value[1].available
  /\ ~result.value[2].available

\* The filtering queries in the same situation.
C21_WitnessAvailable ==
  /\ result.op = "getAvailableFeatures"
  /\ result.status = "ok"
  /\ result.args.finished = <<2, 1>>
  /\ result.value = <<"basic_notes", "cloud_sync">>

C21_WitnessUnavailable ==
  /\ result.op = "getUnavailableFeatures"
  /\ result.status = "ok"
  /\ result.args.finished = <<2, 1>>
  /\ Len(result.value) = 1
  /\ result.value[1].feature = "cloud_sync"

\* requireFeature(f) agrees with what checkFeatureAvailability(f) reports in
\* the state of the call, and leaves the License record as it is.
RequireFeatureFollowsCheck ==
  [][ result'.op = "requireFeature"
        => LET out == CheckFeatureAvailability(result'.args) IN
             /\ out.thrown => result'.status = "error" /\ result'.value = out.error
             /\ (~out.thrown /\ ~out.value.available)
                  => result'.status = "error" /\ result'.code = "FEATURE_NOT_AVAILABLE"
             /\ (~out.thrown /\ out.value.available) => result'.status = "ok"
             /\ featureCache' = out.cache
             /\ UNCHANGED <<isInitialized, currentLicense, deviceId>> ]_vars

\* requireFeature('cloud_sync') throws FEATURE_NOT_AVAILABLE on the free tier
\* and resolves on the standard tier.
RequireCloudSyncByTier ==
  (result.op = "requireFeature" /\ result.args = "cloud_sync")
    => /\ result.pre = "free"
            => result.status = "error" /\ result.code = "FEATURE_NOT_AVAILABLE"
       /\ result.pre = "standard" => result.status = "ok"

\* C22: LicenseService.requireFeature(f) throws FEATURE_NOT_AVAILABLE exactly
\* when checkFeatureAvailability(f) reports available = false and resolves
\* otherwise, never changing the License record; in particular
\* requireFeature('cloud_sync') throws on the free tier and resolves once a
\* standard key has been activated.
C22_RequireFeatureThrowsWhenUnavailable ==
  RequireFeatureFollowsCheck /\ []RequireCloudSyncByTier

(***************************************************************************)
(* FeatureGate.requireFeature: validates its inputs and awaits              *)
(* licenseService.requireFeature(feature).                                  *)
(***************************************************************************)

\* The arguments of requireFeature: every combination.
RequireInputs == [feature : FeatureInputs, licenseService : ServiceInputs]

\* The catch block of FeatureGate.requireFeature.
gateRequireFeatureCatch(error, feature) ==
  IF error.name = "FeatureGateError"
  THEN error
  ELSE FeatureGateError("FEATURE_REQUIRED_BUT_UNAVAILABLE",
         <<"Required feature '", feature, "' is not available">>)

\* FeatureGate.requireFeature, from the call to its await.
gateRequireFeature(c) ==
  /\ IsFreeSlot(c)
  /\ \E in \in RequireInputs :
       LET invalid == validateInputs(in.feature, in.licenseService)
           gate == [feature |-> in.feature, licenseService |-> in.licenseService,
                    options |-> [fallbackToConservative |-> FALSE, retryCount |-> Null],
                    hit |-> FALSE, attempt |-> 0, invocations |-> 0, failures |-> 0]
       IN IF invalid # Null
          THEN /\ result' = Threw("FeatureGate.requireFeature", gate,
                                  gateRequireFeatureCatch(invalid[1], in.feature))
               /\ UNCHANGED calls
          ELSE /\ \E rejects \in Unreliable :
                    calls' = [calls EXCEPT ![c] =
                                Invoked("FeatureGate.requireFeature", in.feature[1], gate,
                                        GateInvoke(in.feature[1], rejects))]
               /\ result' = NoResult
  /\ UNCHANGED <<svcVars, now, ticks, memoCount, pc, featureDefinitions, gateCache, clearOwed>>

\* requireFeature resumes with the outcome of the service's requireFeature: it
\* returns, or wraps the error the service threw.
gateRequireFeatureResume(c) ==
  /\ calls[c].stage = "settled"
  /\ calls[c].entry = "FeatureGate.requireFeature"
  /\ LET call == calls[c]
         gate == call.gate
         thrown == IF ~call.outcome.ok
                   THEN Some(call.outcome.error)
                   ELSE IF ~call.outcome.value.available
                   THEN Some(LicenseError("FEATURE_NOT_AVAILABLE",
                               <<"Feature ", call.feature, " requires paid license">>))
                   ELSE Null
     IN result' = IF thrown = Null
                  THEN Returned(call.entry, gate, Null)
                  ELSE Threw(call.entry,
                             [gate EXCEPT !.failures = IF call.outcome.ok THEN @ ELSE @ + 1],
                             gateRequireFeatureCatch(thrown[1], gate.feature))
  /\ calls' = [calls EXCEPT ![c] = NoCall]
  /\ UNCHANGED <<svcVars, now, ticks, memoCount, pc, featureDefinitions, gateCache, clearOwed>>

\* One caller that looks features up and requires them through FeatureGate, one
\* call after the other, while the license changes between the calls.
NextRequire ==
  \/ \E c \in CallIds : NoCallInFlight /\ isAvailablePlain(c)
  \/ \E c \in CallIds : NoCallInFlight /\ gateRequireFeature(c)
  \/ \E c \in CallIds : GateServiceResume(c)
  \/ \E c \in CallIds : GateResume(c)
  \/ \E c \in CallIds : gateRequireFeatureResume(c)
  \/ NoCallInFlight /\ CallerActivateLicense
  \/ NoCallInFlight /\ CallerDeactivateLicense
  \/ clearCacheForLicense

SpecRequire == InitCreate /\ [][NextRequire]_vars

\* A completed FeatureGate.requireFeature whose arguments passed validateInputs.
ValidRequire(r) ==
  /\ r.op = "FeatureGate.requireFeature"
  /\ r.args.feature \in {Some(f) : f \in FeatureNames}
  /\ r.args.licenseService # Null

\* requireFeature does not call the license service while an unexpired
\* FeatureGate cache entry exists for the feature.
RequireServedFromGateCache ==
  [][ \A c \in CallIds :
        (/\ calls[c].stage = "idle" /\ calls'[c].stage # "idle"
         /\ calls'[c].entry = "FeatureGate.requireFeature")
          => ~Served(gateCache[cacheKey(calls'[c].feature, deviceId[1])], now,
                     GATE_CACHE_TTL) ]_vars

\* requireFeature(f) throws exactly when the unexpired entry, from which
\* isAvailable(f) would be answered, says that f is not available.
RequireAgreesWithIsAvailable ==
  (ValidRequire(result) /\ Served(GateEntryOf(result), now, GATE_CACHE_TTL))
    => (result.status = "error" <=> ~GateEntryOf(result)[1].result.available)

\* C23: FeatureGate.requireFeature follows the caching discipline of
\* getAvailability: with an unexpired FeatureGate cache entry for (feature,
\* deviceId) it decides from that entry without calling the license service, so
\* that it throws exactly when isAvailable would return false.
C23_RequireFeatureUsesGateCache ==
  RequireServedFromGateCache /\ []RequireAgreesWithIsAvailable

\* The empty and the blank key, and the keys that match a paid tier's pattern.
BlankKeys == {KEY_EMPTY, KEY_BLANK}
PaidKeys == {KEY_STANDARD, KEY_STUDENT}

\* C24: activateLicense with an empty or blank key, or with a deviceId that is
\* missing or differs from the service's device id, throws INVALID_LICENSE_KEY
\* and changes neither the License record nor the feature cache, whatever the
\* key is.
C24_ActivateRejectsBadInputFirst ==
  [][ (/\ result'.op = "activateLicense"
       /\ \/ result'.args.licenseKey \in BlankKeys
          \/ result'.args.deviceId = Null
          \/ result'.args.deviceId # deviceId)
        => /\ result'.status = "error"
           /\ result'.code = "INVALID_LICENSE_KEY"
           /\ UNCHANGED <<isInitialized, currentLicense, deviceId, featureCache>> ]_vars

\* C24 witness: a valid standard key was presented with another device's id to
\* a Ready service that has a cached feature result, and was rejected.
C24_Witness ==
  /\ result.op = "activateLicense"
  /\ result.args.licenseKey \in PaidKeys
  /\ result.args.deviceId # Null
  /\ result.args.deviceId # deviceId
  /\ result.status = "error"
  /\ Ready
  /\ ~CacheIsEmpty

\* The other case of C24: a blank key with the right device id was rejected.
C24_WitnessBlankKey ==
  /\ result.op = "activateLicense"
  /\ result.args.licenseKey = KEY_BLANK
  /\ result.args.deviceId = deviceId
  /\ result.status = "error"
  /\ Ready

\* C25: activateLicense with a key that matches a tier pattern and carries the
\* expiry marker, presented with the service's device id, returns isValid false
\* with the error 'License key has expired' and leaves the License record and
\* the feature cache as they were, on every current tier.
C25_ExpiredKeyCommitsNothing ==
  [][ (/\ result'.op = "activateLicense"
       /\ result'.args.licenseKey = KEY_STANDARD_EXPIRED
       /\ result'.args.deviceId # Null
       /\ result'.args.deviceId = deviceId)
        => /\ result'.status = "ok"
           /\ ~result'.value.isValid
           /\ result'.value.error = Some("License key has expired")
           /\ UNCHANGED <<isInitialized, currentLicense, deviceId, featureCache>> ]_vars

\* C25 witness: the expired key was refused on a service whose current tier is
\* a paid one and whose feature cache holds a result.
C25_Witness ==
  /\ result.op = "activateLicense"
  /\ result.args.licenseKey = KEY_STANDARD_EXPIRED
  /\ result.args.deviceId = deviceId
  /\ result.status = "ok"
  /\ ~result.value.isValid
  /\ Ready
  /\ currentLicense.licenseType \in PaidTiers
  /\ ~CacheIsEmpty

\* The same on the free tier.
C25_WitnessFree ==
  /\ result.op = "activateLicense"
  /\ result.args.licenseKey = KEY_STANDARD_EXPIRED
  /\ result.status = "ok"
  /\ Ready
  /\ currentLicense.licenseType = "free"

\* C26: activateLicense with the expired key 'EXPIRED-2023-OLD123456' and the
\* service's device id returns isValid false with the error 'License key has
\* expired'.
C26_ExpiredTestKeyReportedExpired ==
  (/\ result.op = "activateLicense"
   /\ result.args.licenseKey = KEY_EXPIRED_OLD
   /\ result.args.deviceId # Null
   /\ result.args.deviceId = deviceId)
    => /\ result.status = "ok"
       /\ ~result.value.isValid
       /\ result.value.error = Some("License key has expired")

\* The upper-case name of each paid tier.
TierWord(T) ==
  CASE T = "standard" -> W_STANDARD
    [] T = "student" -> W_STUDENT
    [] T = "enterprise" -> W_ENTERPRISE

\* The whole key is T's name, a dash, 4 digits, a dash and 12 of [A-Z0-9].
KeyOfTier(key, T) ==
  LET w == TierWord(T) IN
    /\ Len(key) = Len(w) + 1 + 4 + 1 + 12
    /\ SubSeq(key, 1, Len(w) + 1) = w \o <<"-">>
    /\ \A i \in 1..4 : key[Len(w) + 1 + i] \in Digit
    /\ key[Len(w) + 6] = "-"
    /\ \A i \in 1..12 : key[Len(w) + 6 + i] \in UpperAlnum

\* A request that passes the input checks of activateLicense.
PassesInputChecks(r) ==
  /\ r.op = "activateLicense"
  /\ r.args.licenseKey \notin BlankKeys
  /\ r.args.deviceId # Null
  /\ r.args.deviceId = deviceId

\* A key is accepted as tier T only if it has T's shape, no key has the shape
\* of two tiers, and every key of no tier's shape is refused as invalid.
KeyClassifiedByShape ==
  /\ \A key \in Keys : Cardinality({T \in PaidTiers : KeyOfTier(key, T)}) <= 1
  /\ (PassesInputChecks(result) /\ result.status = "ok")
       => /\ result.value.isValid
               => KeyOfTier(result.args.licenseKey, result.value.licenseType)
          /\ (\A T \in PaidTiers : ~KeyOfTier(result.args.licenseKey, T))
               => /\ ~result.value.isValid
                  /\ result.value.error = Some("Invalid license key format")

\* The student key of the activation test activates as student.
StudentTestKeyActivates ==
  (PassesInputChecks(result) /\ result.args.licenseKey = KEY_STUDENT_SHORT)
    => /\ result.status = "ok"
       /\ result.value.isValid
       /\ result.value.licenseType = "student"

\* C27: a key is accepted as tier T only if the whole key is T's upper-case
\* name, a dash, 4 digits, a dash and 12 characters of [A-Z0-9]; at most one
\* tier pattern matches a key; every other key is Invalid; and the student key
\* 'STUDENT-2024-STU123456' of the tests activates as student.
C27_KeyClassification ==
  KeyClassifiedByShape /\ StudentTestKeyActivates

\* C28: every successful initialize() leaves the service Ready with the free
\* default License: licenseKey null, isValid true, all timestamps null,
\* daysUntilExpiry null and the device id set, whatever was active before.
C28_InitializeEndsReadyFree ==
  (result.op = "initialize" /\ result.status = "ok")
    => /\ isInitialized
       /\ deviceId # Null
       /\ currentLicense # Null
       /\ currentLicense.licenseType = "free"
       /\ currentLicense.licenseKey = Null
       /\ currentLicense.isValid = TRUE
       /\ currentLicense.activationDate = Null
       /\ currentLicense.lastVerification = Null
       /\ currentLicense.gracePeriodStart = Null
       /\ currentLicense.daysUntilExpiry = Null
       /\ currentLicense.deviceId = deviceId

\* C28 witness: initialize() succeeded on a service that had a paid license.
C28_Witness ==
  /\ result.op = "initialize"
  /\ result.status = "ok"
  /\ result.pre \in PaidTiers
  /\ currentLicense.licenseType = "free"

\* The other case of C28: initialize() after a shutdown.
C28_WitnessAfterShutdown ==
  /\ result.op = "initialize"
  /\ result.status = "ok"
  /\ result.pre = "uninitialized"
  /\ now > 0

\* An initialize() whose liveness probe reported unhealthy or threw.
ProbeFailed(r) ==
  r.op = "initialize" /\ r.args.healthCheck \in {"unhealthy", "rejects"}

\* initialize() with a failing probe fails after one probe and changes no state.
FailedProbeChangesNothing ==
  [][ ProbeFailed(result')
        => /\ result'.status = "error"
           /\ result'.args.probes = 1
           /\ UNCHANGED <<isInitialized, currentLicense, deviceId, featureCache>> ]_vars

\* The operation made right after a failed initialize() on an uninitialized
\* service fails with SERVICE_NOT_INITIALIZED.
StillUninitializedAfterFailedProbe ==
  [][ (ProbeFailed(result) /\ ~isInitialized /\ result'.op \in PublicOperations)
        => /\ result'.status = "error"
           /\ result'.code = "SERVICE_NOT_INITIALIZED" ]_vars

\* C29: when the liveness probe fails, initialize() fails with the propagated
\* error after probing once and changes no state; a fresh service stays
\* Uninitialized and its other operations keep failing with
\* SERVICE_NOT_INITIALIZED.
C29_FailedProbeLeavesUninitialized ==
  FailedProbeChangesNothing /\ StillUninitializedAfterFailedProbe

\* The length of the groups joined with '-'.
RECURSIVE JoinedLength(_)
JoinedLength(groups) ==
  IF groups = <<>> THEN 0
  ELSE (Head(groups)[2] - Head(groups)[1])
         + (IF Len(groups) > 1 THEN 1 ELSE 0) + JoinedLength(Tail(groups))

\* The identifier of this environment: the digest of its five values.
DeviceIdOfEnvironment ==
  <<"sha256-uuid",
    [hostname |-> "host", platform |-> "linux", arch |-> "x64",
     homedir |-> "/home/user", userInfo |-> "user"]>>

C30_WitnessAfterShutdown ==
  /\ result.op = "initialize"
  /\ result.status = "ok"
  /\ result.pre = "uninitialized"
  /\ now > 0
  /\ deviceId = Some(DeviceIdOfEnvironment)

C30_WitnessActivation ==
  /\ result.op = "activateLicense"
  /\ result.status = "ok"
  /\ result.value.isValid
  /\ deviceId = Some(DeviceIdOfEnvironment)

\* C31: device identity generation never fails: initialize() with a healthy
\* repository succeeds and sets a device id, also when the user-name lookup of
\* the operating system throws.
C31_DeviceIdGenerationTotal ==
  (result.op = "initialize" /\ result.args.healthCheck = "healthy")
    => /\ result.status = "ok"
       /\ isInitialized
       /\ deviceId # Null

ReturnedLimits ==
  IF result.op = "none" THEN Null
  ELSE IF result.status # "ok" THEN Null
  ELSE IF result.op = "getLicenseLimits" THEN Some(result.value)
  ELSE IF result.op \in {"validateLicense", "activateLicense"}
       THEN Some(result.value.limits)
  ELSE Null

\* The array of FEATURE_DEFINITIONS that a LicenseLimits object carries: the
\* cases of getLicenseLimits pair maxMemos -1 with PAID_TIER and 10 with FREE_TIER.
SharedArrayOf(limits) ==
  IF limits.maxMemos = UNLIMITED THEN "PAID_TIER" ELSE "FREE_TIER"

\* What a caller makes of a string array: push(feature), for a feature that
\* is not in it yet.
ArrayChanges(arr) ==
  {Append(arr, f) : f \in {g \in FeatureNames : ~ArrayIncludes(arr, g)}}

\* The caller changes the featuresEnabled array of the LicenseLimits it was
\* given, which is the array of FEATURE_DEFINITIONS.
CallerModifiesFeaturesEnabled ==
  /\ ReturnedLimits # Null
  /\ LET shared == SharedArrayOf(ReturnedLimits[1]) IN
       \E changed \in ArrayChanges(featureDefinitions[shared]) :
         /\ featureDefinitions' = [featureDefinitions EXCEPT ![shared] = changed]
         /\ result' = Returned("callerModifiesFeaturesEnabled", shared, changed)
  /\ UNCHANGED <<svcVars, envVars, calls, gateCache, clearOwed>>

\* The caller changes the License object that getLicenseInfo returned: it
\* assigns to a field of the copy, which the service does not hold, or calls
\* setTime on one of its Date fields, which is the Date of currentLicense.
CallerModifiesLicenseInfo ==
  /\ result.op = "getLicenseInfo"
  /\ result.status = "ok"
  /\ \/ \E t \in {"free", "enterprise"} :
          /\ result' = Returned("callerAssignsField",
                                [field |-> "licenseType", value |-> t], Null)
          /\ UNCHANGED currentLicense
     \/ \E field \in {"activationDate", "lastVerification"}, t \in {0, 1} :
          /\ result.value[field] # Null
          /\ currentLicense' = [currentLicense EXCEPT ![field] = Some(t)]
          /\ result' = Returned("callerSetsTime", [field |-> field, value |-> t], Null)
  /\ UNCHANGED <<isInitialized, deviceId, featureCache, envVars, gateVars>>

\* The license operations of a caller that keeps and changes what it is given.
NextCaller ==
  \/ getLicenseInfo /\ UNCHANGED gateVars
  \/ getLicenseLimits /\ UNCHANGED gateVars
  \/ validateLicense /\ UNCHANGED gateVars
  \/ activateLicense /\ UNCHANGED gateVars
  \/ deactivateLicense /\ UNCHANGED gateVars
  \/ checkFeatureAvailability /\ UNCHANGED gateVars
  \/ canCreateMemo /\ UNCHANGED gateVars
  \/ getMemoLimitStatus /\ UNCHANGED gateVars
  \/ CallerModifiesLicenseInfo
  \/ CallerModifiesFeaturesEnabled

SpecCaller == InitCreate /\ [][NextCaller]_vars

\* The operations that only read the license state.
ReadOperations ==
  {"getLicenseInfo", "getLicenseLimits", "validateLicense", "canCreateMemo",
   "getMemoLimitStatus"}

\* A read operation leaves the License record and the feature cache as they are.
ReadOperationsChangeNothing ==
  [][ (result'.op \in ReadOperations)
        => UNCHANGED <<isInitialized, currentLicense, deviceId, featureCache>> ]_vars

\* validateLicense returns isValid and licenseType of the current record,
\* whatever the key of that record looks like.
ValidateReturnsCurrentRecord ==
  [](result.op = "validateLicense" /\ result.status = "ok"
       => /\ result.value.isValid = currentLicense.isValid
          /\ result.value.licenseType = currentLicense.licenseType)

\* An assignment to a field of the License that getLicenseInfo returned leaves
\* the record of the service as it is.
AssignmentToCopyStaysLocal ==
  [][ result'.op = "callerAssignsField" => UNCHANGED currentLicense ]_vars

\* What holds of C33: read operations change nothing, validateLicense returns
\* the current record's validity and tier, and assignments to the fields of a
\* returned License do not reach the service.
C33_ReadsChangeNothingAndAssignmentsStayLocal ==
  /\ ReadOperationsChangeNothing
  /\ ValidateReturnsCurrentRecord
  /\ AssignmentToCopyStaysLocal

\* C33: the read operations getLicenseInfo, getLicenseLimits, validateLicense,
\* canCreateMemo and getMemoLimitStatus leave the License record and the
\* feature cache unchanged, validateLicense returns the current isValid and
\* tier, and no modification that a caller makes to the License returned by
\* getLicenseInfo alters the record that the service reports.
C33_ReadOperationsChangeNoLicenseState ==
  /\ ReadOperationsChangeNothing
  /\ ValidateReturnsCurrentRecord
  /\ [][ result'.op \in {"callerAssignsField", "callerSetsTime"}
           => UNCHANGED currentLicense ]_vars

\* The limits of a tier as FEATURE_DEFINITIONS and getLicenseLimits are written.
LimitsAsWritten(tier) ==
  IF tier \in PaidTiers
  THEN [maxMemos |-> UNLIMITED, maxConcurrentMemos |-> -1, featuresEnabled |-> PAID_TIER]
  ELSE [maxMemos |-> FREE_MAX_MEMOS, maxConcurrentMemos |-> -1,
        featuresEnabled |-> FREE_TIER]

\* C34: the limits of a tier are a pure function of the tier: every
\* getLicenseLimits call returns the same maxMemos and the same feature list for
\* the tier of the service, whatever happened before the call, a caller's
\* change to the featuresEnabled list of an earlier returned value included.
C34_LimitsArePureInTheTier ==
  (result.op = "getLicenseLimits" /\ result.status = "ok")
    => result.value = LimitsAsWritten(result.pre)

\* What holds of C34: maxMemos and maxConcurrentMemos of the returned limits
\* depend on the tier alone.
C34_MemoLimitsArePureInTheTier ==
  (result.op = "getLicenseLimits" /\ result.status = "ok")
    => /\ result.value.maxMemos = LimitsAsWritten(result.pre).maxMemos
       /\ result.value.maxConcurrentMemos = LimitsAsWritten(result.pre).maxConcurrentMemos

\* One caller that looks features up and requires them through FeatureGate,
\* with every kind of argument and over a service that may fail.
NextErrors ==
  \/ \E c \in CallIds : NoCallInFlight /\ isAvailable(c)
  \/ \E c \in CallIds : NoCallInFlight /\ getAvailability(c)
  \/ \E c \in CallIds : NoCallInFlight /\ gateRequireFeature(c)
  \/ \E c \in CallIds : GateServiceResume(c)
  \/ \E c \in CallIds : GateResume(c)
  \/ \E c \in CallIds : GateRetry(c)
  \/ \E c \in CallIds : gateRequireFeatureResume(c)

SpecErrors == InitCreate /\ [][NextErrors]_vars

\* The code of the validation error that the arguments of a call have to get.
ValidationCodeOf(args) ==
  IF InvalidFeature(args.feature) THEN "INVALID_FEATURE_NAME"
  ELSE IF InvalidService(args.licenseService) THEN "INVALID_LICENSE_SERVICE"
  ELSE ""

\* C35: whatever an isAvailable, getAvailability or requireFeature call of
\* FeatureGate rejects with is a FeatureGateError: with the validation code of
\* its arguments if they are invalid, otherwise LICENSE_SERVICE_ERROR from a
\* lookup and FEATURE_REQUIRED_BUT_UNAVAILABLE, with a message that names the
\* feature, from requireFeature.
C35_RejectionsAreFeatureGateErrors ==
  (/\ result.op \in GateLookups \cup {"FeatureGate.requireFeature"}
   /\ result.status = "error")
    => /\ result.value.name = "FeatureGateError"
       /\ result.code =
            IF ValidationCodeOf(result.args) # ""
            THEN ValidationCodeOf(result.args)
            ELSE IF result.op \in GateLookups
            THEN "LICENSE_SERVICE_ERROR"
            ELSE "FEATURE_REQUIRED_BUT_UNAVAILABLE"
       /\ (result.code = "FEATURE_REQUIRED_BUT_UNAVAILABLE"
             => result.value.message[2] = result.args.feature)

\* A lookup with valid arguments was rejected after its service call failed.
C35_Witness ==
  /\ ValidLookup(result)
  /\ result.status = "error"
  /\ result.args.failures > 0
  /\ result.code = "LICENSE_SERVICE_ERROR"

\* requireFeature was rejected for a feature that the tier does not have, and
\* after a service call that failed.
C35_WitnessRequireUnavailable ==
  /\ ValidRequire(result)
  /\ result.status = "error"
  /\ result.args.failures = 0
  /\ result.code = "FEATURE_REQUIRED_BUT_UNAVAILABLE"

C35_WitnessRequireServiceFailed ==
  /\ ValidRequire(result)
  /\ result.status = "error"
  /\ result.args.failures > 0
  /\ result.code = "FEATURE_REQUIRED_BUT_UNAVAILABLE"

\* A call with invalid arguments was rejected with its validation code.
C35_WitnessValidation ==
  /\ result.op \in GateLookups \cup {"FeatureGate.requireFeature"}
  /\ result.status = "error"
  /\ result.code \in {"INVALID_FEATURE_NAME", "INVALID_LICENSE_SERVICE"}

(***************************************************************************)
(* FeatureGate.clearCacheForFeature.  A cache key is the feature name, an  *)
(* underscore and the device id; names and keys are kept as the sequence   *)
(* of their parts between underscores, on which startsWith is computed.    *)
(***************************************************************************)

\* The features that clearCacheForFeature is called for.
ClearFeatures == FeatureNames \cup {"basic", "cloud"}

\* feature.split('_')
Words(feature) ==
  CASE feature = "basic_notes" -> <<"basic", "notes">>
    [] feature = "cloud_sync" -> <<"cloud", "sync">>
    [] OTHER -> <<feature>>

\* key.startsWith(`${feature}_`): the parts of the feature begin the key and
\* at least one more part follows.  The parts of a key are those of its
\* feature, then the device id, which is a UUID and has no underscore.
KeyStartsWith(key, feature) ==
  LET keyWords == Words(key[1]) \o <<key[3]>> IN
    /\ Len(keyWords) > Len(Words(feature))
    /\ \A i \in 1..Len(Words(feature)) : keyWords[i] = Words(feature)[i]

\* FeatureGate.clearCacheForFeature(feature)
clearCacheForFeature ==
  \E feature \in ClearFeatures :
    /\ gateCache' = [k \in CacheKeys |->
                       IF KeyStartsWith(k, feature) THEN Null ELSE gateCache[k]]
    /\ result' = Returned("clearCacheForFeature", feature, Null)
    /\ UNCHANGED <<svcVars, now, ticks, memoCount, pc, featureDefinitions, calls, clearOwed>>

\* One caller whose lookups fill the FeatureGate cache and who clears it, one
\* call after the other.
NextClear ==
  \/ \E c \in CallIds : NoCallInFlight /\ isAvailablePlain(c)
  \/ \E c \in CallIds : GateServiceResume(c)
  \/ \E c \in CallIds : GateResume(c)
  \/ NoCallInFlight /\ clearCacheForFeature
  \/ NoCallInFlight /\ clearCache
  \/ NoCallInFlight /\ GateTick

SpecClear == InitCreate /\ [][NextClear]_vars

\* C36: clearCacheForFeature(f) removes the entries whose feature is f and
\* leaves the entry of every other feature as it was, also that of a feature
\* whose name begins with f and an underscore.
C36_ClearRemovesExactlyTheFeature ==
  [][ result'.op = "clearCacheForFeature"
        => \A k \in CacheKeys :
             gateCache'[k] = IF k[1] = result'.args THEN Null ELSE gateCache[k] ]_vars

\* What holds of C36: the entries of f are removed, and the entries of the
\* features whose name does not begin with f and an underscore stay.
C36_ClearRemovesTheFeatureAndItsExtensions ==
  [][ result'.op = "clearCacheForFeature"
        => \A k \in CacheKeys :
             /\ k[1] = result'.args => gateCache'[k] = Null
             /\ (/\ k[1] # result'.args
                 /\ ~(/\ Len(Words(k[1])) > Len(Words(result'.args))
                      /\ SubSeq(Words(k[1]), 1, Len(Words(result'.args)))
                           = Words(result'.args)))
                  => gateCache'[k] = gateCache[k] ]_vars

\* A LicenseValidationResult whose limits are those of its own licenseType.
SelfConsistent(validation) ==
  validation.limits = LimitsAsWritten(validation.licenseType)

\* C37: every LicenseValidationResult that activateLicense or validateLicense
\* returns carries the limits of its own licenseType, on every prior tier and
\* for rejected keys as well as accepted ones.
C37_ValidationResultsSelfConsistent ==
  (result.op \in {"activateLicense", "validateLicense"} /\ result.status = "ok")
    => SelfConsistent(result.value)

\* What holds of C37: the results of validateLicense, of accepted keys, and of
\* keys rejected on the free tier are self-consistent.
C37_ValidResultsSelfConsistent ==
  (/\ result.op \in {"activateLicense", "validateLicense"}
   /\ result.status = "ok"
   /\ (result.value.isValid \/ result.pre = "free"))
    => SelfConsistent(result.value)

\* C38: in every reachable state the three lifecycle fields agree: the service
\* is initialized exactly when it holds a License record, and exactly when it
\* holds a device id.
C38_LifecycleFieldsAgree ==
  /\ isInitialized <=> currentLicense # Null
  /\ isInitialized <=> deviceId # Null

\* The service was shut down from a paid tier and holds none of the three.
C38_Witness ==
  /\ result.op = "shutdown"
  /\ result.pre \in PaidTiers
  /\ ~isInitialized
  /\ currentLicense = Null
  /\ deviceId = Null

\* The service was initialized again after a shutdown and holds all three.
C38_WitnessReady ==
  /\ result.op = "initialize"
  /\ result.status = "ok"
  /\ isInitialized
  /\ currentLicense # Null
  /\ deviceId # Null

\* A completed lookup all of whose service calls failed.
AllAttemptsFailed(r) ==
  /\ r.op \in GateLookups
  /\ r.args.invocations > 0
  /\ r.args.failures = r.args.invocations

\* A completed lookup whose last service call succeeded.
LastAttemptSucceeded(r) ==
  /\ ValidLookup(r)
  /\ r.status = "ok"
  /\ r.args.invocations = r.args.failures + 1

\* The FeatureGate cache gains or overwrites an entry only in the step in
\* which a lookup returns what a successful service call gave it.
CacheWrittenOnlyOnSuccess ==
  [][ (\E k \in CacheKeys : gateCache'[k] # Null /\ gateCache'[k] # gateCache[k])
        => LastAttemptSucceeded(result') ]_vars

\* The step that ends a lookup whose attempts all failed, by a rejection or by
\* the conservative false, leaves the cache as it was.
FailedLookupLeavesCache ==
  [][ AllAttemptsFailed(result') => UNCHANGED gateCache ]_vars

\* A lookup of the same feature right after one whose attempts all failed is
\* not answered from the cache.
LookupAfterFailureAsksAgain ==
  [][ (/\ AllAttemptsFailed(result)
       /\ ValidLookup(result')
       /\ result'.args.feature = result.args.feature
       /\ result' # result)
        => ~result'.args.hit ]_vars

\* C39: FeatureGate never caches a failure: its cache gains or overwrites an
\* entry only when the service call of a lookup succeeded, a lookup whose
\* attempts all failed leaves the cache unchanged with or without
\* fallbackToConservative, and the next lookup of the feature asks the service
\* again.
C39_FailuresAreNotCached ==
  /\ CacheWrittenOnlyOnSuccess
  /\ FailedLookupLeavesCache
  /\ LookupAfterFailureAsksAgain

\* A lookup with fallbackToConservative returned false after all its attempts
\* failed, and the cache has no entry for the feature.
C39_Witness ==
  /\ AllAttemptsFailed(result)
  /\ ValidLookup(result)
  /\ result.status = "ok"
  /\ result.args.options.fallbackToConservative
  /\ result.value = FALSE
  /\ GateEntryOf(result) = Null

\* A lookup was rejected after a retry, all attempts having failed.
C39_WitnessRejected ==
  /\ AllAttemptsFailed(result)
  /\ result.status = "error"
  /\ result.args.invocations > 1
====
